---- MODULE Spec2Model ----
(***************************************************************************)
(* Usage tracking of convex-backend (crates/usage_tracking/src/lib.rs):    *)
(* the FunctionUsageStats counter model and its merge, the mutex-guarded   *)
(* FunctionUsageTracker shared by concurrent call sites, the protobuf      *)
(* conversion of the stats, and the fan-out of a finished call's stats     *)
(* into usage events by UsageCounter.                                      *)
(***************************************************************************)
EXTENDS Integers, Sequences, FiniteSets, TLC

(***************************************************************************)
(* Bounds of the model.                                                    *)
(***************************************************************************)
\* Width of a counter.  The program's counters are u64; the model keeps the
\* modular arithmetic and scales the width down.
CounterBits == 5
\* Largest byte amount one tracking call passes.
MaxBytes == 2
\* Number of tracking calls issued on one tracker.
MaxCalls == 2
\* Largest counter value of a stats value handed to merge.
MaxCount == 1

U64Max == 2^CounterBits - 1
U64 == 0..U64Max
\* The holders of a clone of one tracker that run concurrently: the
\* Transaction and the Committer.
Threads == {"transaction", "committer"}
ByteAmounts == 0..MaxBytes

\* Table names and storage API names, each in the order of String's Ord,
\* which is the iteration order of a BTreeMap keyed by them.
TableNames == <<"docs", "users">>
StorageAPIs == <<"getUrl", "store">>

Range(s) == {s[i] : i \in DOMAIN s}
Tables == Range(TableNames)
Apis == Range(StorageAPIs)

(***************************************************************************)
(* FunctionUsageStats and its maps.  A BTreeMap<String, u64> is a function *)
(* from the set of its keys.                                               *)
(***************************************************************************)
EmptyMap == [k \in {} |-> 0]

\* #[derive(Default)]: every counter zero, every map empty.
Default ==
    [ storage_calls |-> EmptyMap,
      storage_ingress_size |-> 0,
      storage_egress_size |-> 0,
      database_ingress_size |-> EmptyMap,
      database_egress_size |-> EmptyMap,
      vector_ingress_size |-> EmptyMap,
      vector_egress_size |-> EmptyMap ]

\* The five map fields of FunctionUsageStats.
MapFields ==
    { "storage_calls", "database_ingress_size", "database_egress_size",
      "vector_ingress_size", "vector_egress_size" }

\* Slip: the addition written saturating.
AddU64_saturating(a, b) == IF a + b > U64Max THEN U64Max ELSE a + b

\* `a += b` on u64 as compiled without overflow checks: it wraps at the
\* counter width.  (Compiled with overflow checks, the addition panics
\* where it would wrap: see Overflows.)
AddU64(a, b) == (a + b) % (U64Max + 1)

\* `a += b` does not fit the counter: the build with overflow checks
\* (-C overflow-checks, the default of debug builds) panics here.
Overflows(a, b) == a + b > U64Max

\* WithHeapSize::mutate_entry_or_default(key, |count| *count += amount):
\* the entry of `key` is created at the default 0 when absent, then mutated.
MutateEntryOrDefault(map, key, amount) ==
    [k \in DOMAIN map \cup {key} |->
        IF k = key
        THEN AddU64(IF key \in DOMAIN map THEN map[key] ELSE 0, amount)
        ELSE map[k]]

\* The keys of a map in iteration order (`order` lists the key universe).
SortedKeys(map, order) == SelectSeq(order, LAMBDA k : k \in DOMAIN map)

\* for (key, count) in other { self.mutate_entry_or_default(key, += count) }
RECURSIVE MergeEntries(_, _, _)
MergeEntries(self_map, other_map, keys) ==
    IF keys = <<>>
    THEN self_map
    ELSE MergeEntries(MutateEntryOrDefault(self_map, Head(keys), other_map[Head(keys)]),
                      other_map, Tail(keys))

\* Slip: merge inserting other's entries and scalars in place of adding them.
merge_overwriting(self, other) ==
    [ storage_calls |-> other.storage_calls @@ self.storage_calls,
      storage_ingress_size |-> other.storage_ingress_size,
      storage_egress_size |-> other.storage_egress_size,
      database_ingress_size |-> other.database_ingress_size @@ self.database_ingress_size,
      database_egress_size |-> other.database_egress_size @@ self.database_egress_size,
      vector_ingress_size |-> other.vector_ingress_size @@ self.vector_ingress_size,
      vector_egress_size |-> other.vector_egress_size @@ self.vector_egress_size ]

\* Slip: the two storage scalars assigned (`=`) where they are added (`+=`).
merge_assigning_scalars(self, other) ==
    [ storage_calls |->
          MergeEntries(self.storage_calls, other.storage_calls,
                       SortedKeys(other.storage_calls, StorageAPIs)),
      storage_ingress_size |-> other.storage_ingress_size,
      storage_egress_size |-> other.storage_egress_size,
      database_ingress_size |->
          MergeEntries(self.database_ingress_size, other.database_ingress_size,
                       SortedKeys(other.database_ingress_size, TableNames)),
      database_egress_size |->
          MergeEntries(self.database_egress_size, other.database_egress_size,
                       SortedKeys(other.database_egress_size, TableNames)),
      vector_ingress_size |->
          MergeEntries(self.vector_ingress_size, other.vector_ingress_size,
                       SortedKeys(other.vector_ingress_size, TableNames)),
      vector_egress_size |->
          MergeEntries(self.vector_egress_size, other.vector_egress_size,
                       SortedKeys(other.vector_egress_size, TableNames)) ]

\* Slip: the vector ingress loop written as a copy of the database ingress
\* loop, still folding into database_ingress_size.
merge_vector_into_database(self, other) ==
    LET db == MergeEntries(self.database_ingress_size, other.database_ingress_size,
                           SortedKeys(other.database_ingress_size, TableNames))
    IN
    [ storage_calls |->
          MergeEntries(self.storage_calls, other.storage_calls,
                       SortedKeys(other.storage_calls, StorageAPIs)),
      storage_ingress_size |-> AddU64(self.storage_ingress_size, other.storage_ingress_size),
      storage_egress_size |-> AddU64(self.storage_egress_size, other.storage_egress_size),
      database_ingress_size |->
          MergeEntries(db, other.vector_ingress_size,
                       SortedKeys(other.vector_ingress_size, TableNames)),
      database_egress_size |->
          MergeEntries(self.database_egress_size, other.database_egress_size,
                       SortedKeys(other.database_egress_size, TableNames)),
      vector_ingress_size |-> self.vector_ingress_size,
      vector_egress_size |->
          MergeEntries(self.vector_egress_size, other.vector_egress_size,
                       SortedKeys(other.vector_egress_size, TableNames)) ]

\* FunctionUsageStats::merge(&mut self, other): the value of self afterwards.
merge(self, other) ==
    [ storage_calls |->
          MergeEntries(self.storage_calls, other.storage_calls,
                       SortedKeys(other.storage_calls, StorageAPIs)),
      storage_ingress_size |-> AddU64(self.storage_ingress_size, other.storage_ingress_size),
      storage_egress_size |-> AddU64(self.storage_egress_size, other.storage_egress_size),
      database_ingress_size |->
          MergeEntries(self.database_ingress_size, other.database_ingress_size,
                       SortedKeys(other.database_ingress_size, TableNames)),
      database_egress_size |->
          MergeEntries(self.database_egress_size, other.database_egress_size,
                       SortedKeys(other.database_egress_size, TableNames)),
      vector_ingress_size |->
          MergeEntries(self.vector_ingress_size, other.vector_ingress_size,
                       SortedKeys(other.vector_ingress_size, TableNames)),
      vector_egress_size |->
          MergeEntries(self.vector_egress_size, other.vector_egress_size,
                       SortedKeys(other.vector_egress_size, TableNames)) ]

(***************************************************************************)
(* State.                                                                  *)
(***************************************************************************)
VARIABLES
    state,        \* FunctionUsageTracker.state: the stats inside Arc<Mutex<..>>
    mutex,        \* the thread holding the lock of `state`, or NoThread
    pc,           \* per thread: its position in the call it is executing
    local,        \* per thread: arguments of its call in flight, and the
                  \*   stats it found on entry
    ncalls,       \* number of calls issued on the tracker so far
    nskipped,     \* number of those issued with skip_logging = true
    reference,    \* per counter, the sum of the amounts of the calls that
                  \*   address it and have ended (unbounded arithmetic)
    disciplined,  \* every stats value handed to add() so far had its vector
                  \*   counters within its database counters
    extracted,    \* Some(what the last gather_user_stats() returned)
    scopes,       \* per thread: the number of storage call trackers it holds
                  \*   that track_storage_call returned on this tracker
    merge_in,     \* operands a, b, c handed to merge
    merge_out,    \* Some(the merged values computed from merge_in)
    wire_stats,   \* Some(the FunctionUsageStats handed to the conversion)
    wire_msg,     \* Some(the FunctionUsageStatsProto in hand)
    wire_result,  \* Some(the Result of converting wire_msg back)
    logger,       \* UsageCounter.usage_logger: the batches it was handed,
                  \*   in the order of the record() calls
    reported,     \* per batch, the entry point and arguments that produced it
    execution_ids,  \* number of identifiers ExecutionId::new() has generated
    in_flight,    \* UsageCounter::track_storage_call calls that generated
                  \*   their identifier and have not recorded their event yet
    independent,  \* execution_id of each IndependentStorageCallTracker returned
    aggregate_of, \* the stats value aggregate() is called on
    aggregated    \* Some(what aggregate() returned)

tracker_vars ==
    <<state, mutex, pc, local, ncalls, nskipped, reference, disciplined, extracted, scopes>>
merge_vars == <<merge_in, merge_out>>
codec_vars == <<wire_stats, wire_msg, wire_result>>
sink_vars == <<logger, reported>>
independent_vars == <<execution_ids, in_flight, independent>>
aggregate_vars == <<aggregate_of, aggregated>>
vars == <<tracker_vars, merge_vars, codec_vars, sink_vars, independent_vars, aggregate_vars>>

NoThread == "unlocked"
\* Option<T>: None, or Some(value) whose content is Unwrap(option).
None == <<>>
Some(value) == <<value>>
Unwrap(option) == option[1]
NoCall == [table_name |-> "", size |-> 0, entry |-> Default]

\* map.get(key).unwrap_or(0)
Get(map, key) == IF key \in DOMAIN map THEN map[key] ELSE 0

\* Usage produced by nested executions, as handed to add().
NestedStats ==
    { Default,
      [Default EXCEPT !.database_ingress_size = ("docs" :> 2),
                      !.vector_ingress_size = ("docs" :> 1)],
      [Default EXCEPT !.database_egress_size = ("docs" :> 0) @@ ("users" :> 1),
                      !.vector_egress_size = ("users" :> 1),
                      !.storage_calls = ("getUrl" :> 1),
                      !.storage_ingress_size = 2],
      [Default EXCEPT !.database_ingress_size = ("users" :> 1),
                      !.database_egress_size = ("users" :> 2),
                      !.storage_calls = ("store" :> 2) @@ ("getUrl" :> 1),
                      !.storage_egress_size = 1],
      [Default EXCEPT !.vector_egress_size = ("docs" :> 1)],
      [Default EXCEPT !.database_ingress_size = ("users" :> 1),
                      !.vector_ingress_size = ("users" :> 2)] }

\* The data model's invariant on one stats value: per table, vector
\* bandwidth within database bandwidth.
VectorWithinDatabase(stats) ==
    \A t \in Tables :
        /\ Get(stats.vector_ingress_size, t) <= Get(stats.database_ingress_size, t)
        /\ Get(stats.vector_egress_size, t) <= Get(stats.database_egress_size, t)

\* The reference accumulation: total functions, a counter never addressed is 0.
ReferenceZero ==
    [ storage_calls |-> [a \in Apis |-> 0],
      storage_ingress_size |-> 0,
      storage_egress_size |-> 0,
      database_ingress_size |-> [t \in Tables |-> 0],
      database_egress_size |-> [t \in Tables |-> 0],
      vector_ingress_size |-> [t \in Tables |-> 0],
      vector_egress_size |-> [t \in Tables |-> 0] ]

ReferencePlus(r, stats) ==
    [ storage_calls |-> [a \in Apis |-> r.storage_calls[a] + Get(stats.storage_calls, a)],
      storage_ingress_size |-> r.storage_ingress_size + stats.storage_ingress_size,
      storage_egress_size |-> r.storage_egress_size + stats.storage_egress_size,
      database_ingress_size |->
          [t \in Tables |-> r.database_ingress_size[t] + Get(stats.database_ingress_size, t)],
      database_egress_size |->
          [t \in Tables |-> r.database_egress_size[t] + Get(stats.database_egress_size, t)],
      vector_ingress_size |->
          [t \in Tables |-> r.vector_ingress_size[t] + Get(stats.vector_ingress_size, t)],
      vector_egress_size |->
          [t \in Tables |-> r.vector_egress_size[t] + Get(stats.vector_egress_size, t)] ]

\* Whether a stats value carries exactly the reference's counters.
MatchesReference(stats, r) ==
    /\ stats.storage_ingress_size = r.storage_ingress_size
    /\ stats.storage_egress_size = r.storage_egress_size
    /\ \A a \in Apis : Get(stats.storage_calls, a) = r.storage_calls[a]
    /\ \A t \in Tables :
        /\ Get(stats.database_ingress_size, t) = r.database_ingress_size[t]
        /\ Get(stats.database_egress_size, t) = r.database_egress_size[t]
        /\ Get(stats.vector_ingress_size, t) = r.vector_ingress_size[t]
        /\ Get(stats.vector_egress_size, t) = r.vector_egress_size[t]

TrackerInit ==
    /\ state = Default
    /\ mutex = NoThread
    /\ pc = [th \in Threads |-> "idle"]
    /\ local = [th \in Threads |-> NoCall]
    /\ ncalls = 0
    /\ nskipped = 0
    /\ reference = ReferenceZero
    /\ disciplined = TRUE
    /\ extracted = None
    /\ scopes = [th \in Threads |-> 0]

(***************************************************************************)
(* FunctionUsageTracker.  A call that takes the lock and mutates once is   *)
(* one step (lock, mutate, drop the guard); a vector call mutates twice    *)
(* under the lock and is two steps.  A thread whose lock() finds the mutex *)
(* held waits: its step is not enabled.                                    *)
(***************************************************************************)
\* A thread may issue a call: it holds a clone of the tracker and runs none.
CanCall(th) == pc[th] = "idle" /\ ncalls < MaxCalls

\* Slip: the state read and written without waiting for the guard.
LockFree_unchecked == TRUE

\* self.state.lock() returns only when no other thread holds the guard.
LockFree == mutex = NoThread

\* The call returns at once, having touched nothing.
Skipped ==
    /\ nskipped' = nskipped + 1
    /\ UNCHANGED <<state, mutex, pc, local, reference, disciplined, extracted, scopes>>

\* Slip: the plain ingress call written as the vector ingress call, adding
\* the surcharge to vector_ingress_size as well.
track_database_ingress_size_with_surcharge(th, table_name, ingress_size, skip_logging) ==
    /\ CanCall(th)
    /\ ncalls' = ncalls + 1
    /\ IF skip_logging
       THEN Skipped
       ELSE /\ LockFree
            /\ state' = [state EXCEPT
                            !.database_ingress_size =
                                MutateEntryOrDefault(@, table_name, ingress_size),
                            !.vector_ingress_size =
                                MutateEntryOrDefault(@, table_name, ingress_size)]
            /\ reference' = [reference EXCEPT
                                !.database_ingress_size[table_name] = @ + ingress_size]
            /\ UNCHANGED <<mutex, pc, local, nskipped, disciplined, extracted, scopes>>

track_database_ingress_size(th, table_name, ingress_size, skip_logging) ==
    /\ CanCall(th)
    /\ ncalls' = ncalls + 1
    /\ IF skip_logging
       THEN Skipped
       ELSE /\ LockFree
            /\ state' = [state EXCEPT !.database_ingress_size =
                            MutateEntryOrDefault(@, table_name, ingress_size)]
            /\ reference' = [reference EXCEPT
                                !.database_ingress_size[table_name] = @ + ingress_size]
            /\ UNCHANGED <<mutex, pc, local, nskipped, disciplined, extracted, scopes>>

\* Slip: the egress call written as a copy of the ingress call, still
\* mutating database_ingress_size.
track_database_egress_size_into_ingress(th, table_name, egress_size, skip_logging) ==
    /\ CanCall(th)
    /\ ncalls' = ncalls + 1
    /\ IF skip_logging
       THEN Skipped
       ELSE /\ LockFree
            /\ state' = [state EXCEPT !.database_ingress_size =
                            MutateEntryOrDefault(@, table_name, egress_size)]
            /\ reference' = [reference EXCEPT
                                !.database_egress_size[table_name] = @ + egress_size]
            /\ UNCHANGED <<mutex, pc, local, nskipped, disciplined, extracted, scopes>>

track_database_egress_size(th, table_name, egress_size, skip_logging) ==
    /\ CanCall(th)
    /\ ncalls' = ncalls + 1
    /\ IF skip_logging
       THEN Skipped
       ELSE /\ LockFree
            /\ state' = [state EXCEPT !.database_egress_size =
                            MutateEntryOrDefault(@, table_name, egress_size)]
            /\ reference' = [reference EXCEPT
                                !.database_egress_size[table_name] = @ + egress_size]
            /\ UNCHANGED <<mutex, pc, local, nskipped, disciplined, extracted, scopes>>

\* Slip: skip_logging tested only after the database counter was mutated.
track_vector_ingress_size_late_skip(th, table_name, ingress_size, skip_logging) ==
    /\ CanCall(th)
    /\ ncalls' = ncalls + 1
    /\ LockFree
    /\ state' = [state EXCEPT !.database_ingress_size =
                    MutateEntryOrDefault(@, table_name, ingress_size)]
    /\ IF skip_logging
       THEN /\ nskipped' = nskipped + 1
            /\ UNCHANGED <<mutex, pc, local, reference, disciplined, extracted, scopes>>
       ELSE /\ mutex' = th
            /\ pc' = [pc EXCEPT ![th] = "vector_ingress"]
            /\ local' = [local EXCEPT ![th] =
                            [table_name |-> table_name, size |-> ingress_size,
                             entry |-> state]]
            /\ UNCHANGED <<nskipped, reference, disciplined, extracted, scopes>>

\* Entry of track_vector_ingress_size up to the first mutation, which is
\* the database counter's.
track_vector_ingress_size(th, table_name, ingress_size, skip_logging) ==
    /\ CanCall(th)
    /\ ncalls' = ncalls + 1
    /\ IF skip_logging
       THEN Skipped
       ELSE /\ LockFree
            /\ mutex' = th
            /\ state' = [state EXCEPT !.database_ingress_size =
                            MutateEntryOrDefault(@, table_name, ingress_size)]
            /\ pc' = [pc EXCEPT ![th] = "vector_ingress"]
            /\ local' = [local EXCEPT ![th] =
                            [table_name |-> table_name, size |-> ingress_size,
                             entry |-> state]]
            /\ UNCHANGED <<nskipped, reference, disciplined, extracted, scopes>>

\* Slip: the second mutation repeats the first, on database_ingress_size.
track_vector_ingress_size_database_twice(th) ==
    /\ pc[th] = "vector_ingress"
    /\ mutex = th
    /\ state' = [state EXCEPT !.database_ingress_size =
                    MutateEntryOrDefault(@, local[th].table_name, local[th].size)]
    /\ reference' = [reference EXCEPT
                        !.database_ingress_size[local[th].table_name] = @ + local[th].size,
                        !.vector_ingress_size[local[th].table_name] = @ + local[th].size]
    /\ mutex' = NoThread
    /\ pc' = [pc EXCEPT ![th] = "idle"]
    /\ local' = [local EXCEPT ![th] = NoCall]
    /\ UNCHANGED <<ncalls, nskipped, disciplined, extracted, scopes>>

\* The second mutation, the vector counter's, and the drop of the guard.
track_vector_ingress_size_vector(th) ==
    /\ pc[th] = "vector_ingress"
    /\ mutex = th
    /\ state' = [state EXCEPT !.vector_ingress_size =
                    MutateEntryOrDefault(@, local[th].table_name, local[th].size)]
    /\ reference' = [reference EXCEPT
                        !.database_ingress_size[local[th].table_name] = @ + local[th].size,
                        !.vector_ingress_size[local[th].table_name] = @ + local[th].size]
    /\ mutex' = NoThread
    /\ pc' = [pc EXCEPT ![th] = "idle"]
    /\ local' = [local EXCEPT ![th] = NoCall]
    /\ UNCHANGED <<ncalls, nskipped, disciplined, extracted, scopes>>

\* Slip: the vector egress call leaves out the database counter.
track_vector_egress_size_without_database(th, table_name, egress_size, skip_logging) ==
    /\ CanCall(th)
    /\ ncalls' = ncalls + 1
    /\ IF skip_logging
       THEN Skipped
       ELSE /\ LockFree
            /\ mutex' = th
            /\ pc' = [pc EXCEPT ![th] = "vector_egress"]
            /\ local' = [local EXCEPT ![th] =
                            [table_name |-> table_name, size |-> egress_size,
                             entry |-> state]]
            /\ UNCHANGED <<state, nskipped, reference, disciplined, extracted, scopes>>

track_vector_egress_size(th, table_name, egress_size, skip_logging) ==
    /\ CanCall(th)
    /\ ncalls' = ncalls + 1
    /\ IF skip_logging
       THEN Skipped
       ELSE /\ LockFree
            /\ mutex' = th
            /\ state' = [state EXCEPT !.database_egress_size =
                            MutateEntryOrDefault(@, table_name, egress_size)]
            /\ pc' = [pc EXCEPT ![th] = "vector_egress"]
            /\ local' = [local EXCEPT ![th] =
                            [table_name |-> table_name, size |-> egress_size,
                             entry |-> state]]
            /\ UNCHANGED <<nskipped, reference, disciplined, extracted, scopes>>

track_vector_egress_size_vector(th) ==
    /\ pc[th] = "vector_egress"
    /\ mutex = th
    /\ state' = [state EXCEPT !.vector_egress_size =
                    MutateEntryOrDefault(@, local[th].table_name, local[th].size)]
    /\ reference' = [reference EXCEPT
                        !.database_egress_size[local[th].table_name] = @ + local[th].size,
                        !.vector_egress_size[local[th].table_name] = @ + local[th].size]
    /\ mutex' = NoThread
    /\ pc' = [pc EXCEPT ![th] = "idle"]
    /\ local' = [local EXCEPT ![th] = NoCall]
    /\ UNCHANGED <<ncalls, nskipped, disciplined, extracted, scopes>>

\* impl StorageCallTracker for FunctionUsageTracker
track_storage_ingress_size(th, ingress_size) ==
    /\ CanCall(th)
    /\ ncalls' = ncalls + 1
    /\ LockFree
    /\ state' = [state EXCEPT !.storage_ingress_size = AddU64(@, ingress_size)]
    /\ reference' = [reference EXCEPT !.storage_ingress_size = @ + ingress_size]
    /\ UNCHANGED <<mutex, pc, local, nskipped, disciplined, extracted, scopes>>

track_storage_egress_size(th, egress_size) ==
    /\ CanCall(th)
    /\ ncalls' = ncalls + 1
    /\ LockFree
    /\ state' = [state EXCEPT !.storage_egress_size = AddU64(@, egress_size)]
    /\ reference' = [reference EXCEPT !.storage_egress_size = @ + egress_size]
    /\ UNCHANGED <<mutex, pc, local, nskipped, disciplined, extracted, scopes>>

\* Slip: the call counted by inserting 1 for the API.
track_storage_call_inserting(th, storage_api) ==
    /\ CanCall(th)
    /\ ncalls' = ncalls + 1
    /\ LockFree
    /\ state' = [state EXCEPT !.storage_calls = (storage_api :> 1) @@ @]
    /\ reference' = [reference EXCEPT !.storage_calls[storage_api] = @ + 1]
    /\ scopes' = [scopes EXCEPT ![th] = @ + 1]
    /\ UNCHANGED <<mutex, pc, local, nskipped, disciplined, extracted>>

\* impl StorageUsageTracker for FunctionUsageTracker; the tracker returned,
\* Box::new(self.clone()), is one more handle on the same state, held by
\* the calling thread.
track_storage_call(th, storage_api) ==
    /\ CanCall(th)
    /\ ncalls' = ncalls + 1
    /\ LockFree
    /\ state' = [state EXCEPT !.storage_calls = MutateEntryOrDefault(@, storage_api, 1)]
    /\ reference' = [reference EXCEPT !.storage_calls[storage_api] = @ + 1]
    /\ scopes' = [scopes EXCEPT ![th] = @ + 1]
    /\ UNCHANGED <<mutex, pc, local, nskipped, disciplined, extracted>>

\* FunctionUsageTracker::add
add(th, stats) ==
    /\ CanCall(th)
    /\ ncalls' = ncalls + 1
    /\ LockFree
    /\ state' = merge(state, stats)
    /\ reference' = ReferencePlus(reference, stats)
    /\ disciplined' = (disciplined /\ VectorWithinDatabase(stats))
    /\ UNCHANGED <<mutex, pc, local, nskipped, extracted, scopes>>

\* Slip: the stats moved out of the mutex (std::mem::take) where they are
\* cloned.
gather_user_stats_taking(th) ==
    /\ pc[th] = "idle"
    /\ LockFree
    /\ extracted' = Some(state)
    /\ state' = Default
    /\ pc' = [pc EXCEPT ![th] = "gathered"]
    /\ UNCHANGED <<mutex, local, ncalls, nskipped, reference, disciplined, scopes>>

\* FunctionUsageTracker::gather_user_stats(self): the clone of the stats
\* taken under the lock; the thread's handle is consumed.
gather_user_stats(th) ==
    /\ pc[th] = "idle"
    /\ LockFree
    /\ extracted' = Some(state)
    /\ pc' = [pc EXCEPT ![th] = "gathered"]
    /\ UNCHANGED <<state, mutex, local, ncalls, nskipped, reference, disciplined, scopes>>

\* A call on the tracker touches nothing outside the tracker.
OutsideTracker ==
    UNCHANGED <<merge_vars, codec_vars, sink_vars, independent_vars, aggregate_vars>>

TrackerNext ==
    \/ \E th \in Threads, table_name \in Tables, size \in ByteAmounts, skip \in BOOLEAN :
        \/ track_database_ingress_size(th, table_name, size, skip) /\ OutsideTracker
        \/ track_database_egress_size(th, table_name, size, skip) /\ OutsideTracker
        \/ track_vector_ingress_size(th, table_name, size, skip) /\ OutsideTracker
        \/ track_vector_egress_size(th, table_name, size, skip) /\ OutsideTracker
    \/ \E th \in Threads :
        \/ track_vector_ingress_size_vector(th) /\ OutsideTracker
        \/ track_vector_egress_size_vector(th) /\ OutsideTracker
        \/ gather_user_stats(th) /\ OutsideTracker
    \/ \E th \in Threads, size \in ByteAmounts :
        \/ track_storage_ingress_size(th, size) /\ OutsideTracker
        \/ track_storage_egress_size(th, size) /\ OutsideTracker
    \/ \E th \in Threads, storage_api \in Apis :
        track_storage_call(th, storage_api) /\ OutsideTracker
    \/ \E th \in Threads, stats \in NestedStats : add(th, stats) /\ OutsideTracker

MergeIdle ==
    /\ merge_in = [a |-> Default, b |-> Default, c |-> Default]
    /\ merge_out = None

CodecIdle ==
    /\ wire_stats = None
    /\ wire_msg = None
    /\ wire_result = None

\* UsageCounter::new: nothing recorded yet, no storage call tracked.
SinkInit ==
    /\ logger = <<>>
    /\ reported = <<>>
    /\ execution_ids = 0
    /\ in_flight = {}
    /\ independent = {}

AggregateIdle ==
    /\ aggregate_of = Default
    /\ aggregated = None

Init == TrackerInit /\ MergeIdle /\ CodecIdle /\ SinkInit /\ AggregateIdle
Next == TrackerNext
Spec == Init /\ [][Next]_vars

(***************************************************************************)
(* The lifetime of the handles on one tracker: the clones the threads      *)
(* hold, consumed by gather_user_stats(self) or dropped, and the storage   *)
(* call trackers track_storage_call returned, which outlive them.          *)
(***************************************************************************)
\* Byte amounts recorded through a storage call tracker.
ScopeAmounts == {1, MaxBytes}

\* The thread holds a storage call tracker of this tracker and runs no call.
HoldsScope(th) ==
    /\ scopes[th] > 0
    /\ pc[th] \in {"idle", "gathered", "dropped"}
    /\ ncalls < MaxCalls

\* Slip: the tracker of a function's storage call records a StorageBandwidth
\* event as the independent one does.
scope_track_storage_ingress_size_recording(th, ingress_size) ==
    /\ HoldsScope(th)
    /\ ncalls' = ncalls + 1
    /\ LockFree
    /\ state' = [state EXCEPT !.storage_ingress_size = AddU64(@, ingress_size)]
    /\ reference' = [reference EXCEPT !.storage_ingress_size = @ + ingress_size]
    /\ logger' = Append(logger, << [type |-> "StorageBandwidth", id |-> "",
                                     ingress |-> ingress_size, egress |-> 0] >>)
    /\ reported' = Append(reported, [entry |-> "track_storage_ingress_size",
                                     size |-> ingress_size])
    /\ UNCHANGED <<mutex, pc, local, nskipped, disciplined, extracted, scopes>>

\* StorageCallTracker::track_storage_ingress_size called on the Box that
\* track_storage_call returned.
scope_track_storage_ingress_size(th, ingress_size) ==
    /\ HoldsScope(th)
    /\ ncalls' = ncalls + 1
    /\ LockFree
    /\ state' = [state EXCEPT !.storage_ingress_size = AddU64(@, ingress_size)]
    /\ reference' = [reference EXCEPT !.storage_ingress_size = @ + ingress_size]
    /\ UNCHANGED <<mutex, pc, local, nskipped, disciplined, extracted, scopes>>
    /\ UNCHANGED sink_vars

\* StorageCallTracker::track_storage_egress_size called on that Box.
scope_track_storage_egress_size(th, egress_size) ==
    /\ HoldsScope(th)
    /\ ncalls' = ncalls + 1
    /\ LockFree
    /\ state' = [state EXCEPT !.storage_egress_size = AddU64(@, egress_size)]
    /\ reference' = [reference EXCEPT !.storage_egress_size = @ + egress_size]
    /\ UNCHANGED <<mutex, pc, local, nskipped, disciplined, extracted, scopes>>
    /\ UNCHANGED sink_vars

\* The thread's clone of the tracker goes out of scope unused: the
\* execution is abandoned.  Nothing is run but the release of the Arc.
drop(th) ==
    /\ pc[th] = "idle"
    /\ pc' = [pc EXCEPT ![th] = "dropped"]
    /\ UNCHANGED <<state, mutex, local, ncalls, nskipped, reference, disciplined,
                   extracted, scopes>>
    /\ UNCHANGED sink_vars

\* What lies outside both the tracker and the usage logger.
OutsideScope == UNCHANGED <<merge_vars, codec_vars, independent_vars, aggregate_vars>>

ScopeNext ==
    \/ \E th \in Threads, storage_api \in Apis :
          track_storage_call(th, storage_api) /\ OutsideTracker
    \/ \E th \in Threads, size \in ScopeAmounts :
          \/ scope_track_storage_ingress_size(th, size) /\ OutsideScope
          \/ scope_track_storage_egress_size(th, size) /\ OutsideScope
          \/ track_storage_ingress_size(th, size) /\ OutsideTracker
    \/ \E th \in Threads, table_name \in Tables, skip \in BOOLEAN :
          \/ track_database_ingress_size(th, table_name, MaxBytes, skip) /\ OutsideTracker
          \/ track_database_egress_size(th, table_name, MaxBytes, skip) /\ OutsideTracker
          \/ track_vector_ingress_size(th, table_name, MaxBytes, skip) /\ OutsideTracker
          \/ track_vector_egress_size(th, table_name, MaxBytes, skip) /\ OutsideTracker
    \/ \E th \in Threads :
          \/ track_vector_ingress_size_vector(th) /\ OutsideTracker
          \/ track_vector_egress_size_vector(th) /\ OutsideTracker
          \/ gather_user_stats(th) /\ OutsideTracker
          \/ drop(th) /\ OutsideScope
    \/ \E th \in Threads, stats \in NestedStats : add(th, stats) /\ OutsideTracker

SpecScope == Init /\ [][ScopeNext]_vars

(***************************************************************************)
(* Counters at the top of their range.  What `+=` does when the sum does   *)
(* not fit depends on the build: without overflow checks it wraps, which   *)
(* is what the calls above do; with overflow checks it panics, the thread  *)
(* unwinds out of the call and the guard is released by its drop (a        *)
(* parking_lot Mutex is not poisoned).  The *_overflow_checked definitions *)
(* are the calls as built with overflow checks.  A behaviour may take a    *)
(* call from either build; a build takes all of its calls from one.        *)
(***************************************************************************)
\* Byte amounts that take a counter to the top of its range and over it.
OverflowAmounts == {1, U64Max}

\* Stats of nested executions with counters at the top of their range.
OverflowStats ==
    { [Default EXCEPT !.storage_calls = ("getUrl" :> U64Max),
                      !.storage_ingress_size = U64Max,
                      !.database_ingress_size = ("docs" :> U64Max),
                      !.vector_ingress_size = ("docs" :> U64Max)],
      [Default EXCEPT !.storage_calls = ("getUrl" :> 1) @@ ("store" :> 1),
                      !.storage_egress_size = 1,
                      !.database_ingress_size = ("docs" :> 1),
                      !.database_egress_size = ("docs" :> 1) @@ ("users" :> U64Max),
                      !.vector_egress_size = ("users" :> 1)] }

\* The panic of `+=` in a call that mutates once: the thread unwinds, the
\* counter keeps its value, the guard is released.  The amount the call
\* was to add counts in the reference.
overflow_panic(th, reference_after) ==
    /\ CanCall(th)
    /\ ncalls' = ncalls + 1
    /\ LockFree
    /\ pc' = [pc EXCEPT ![th] = "panicked"]
    /\ reference' = reference_after
    /\ UNCHANGED <<state, mutex, local, nskipped, disciplined, extracted, scopes>>

track_database_ingress_size_overflow_checked(th, table_name, ingress_size, skip_logging) ==
    IF ~skip_logging /\ Overflows(Get(state.database_ingress_size, table_name), ingress_size)
    THEN overflow_panic(th, [reference EXCEPT
                                !.database_ingress_size[table_name] = @ + ingress_size])
    ELSE track_database_ingress_size(th, table_name, ingress_size, skip_logging)

track_database_egress_size_overflow_checked(th, table_name, egress_size, skip_logging) ==
    IF ~skip_logging /\ Overflows(Get(state.database_egress_size, table_name), egress_size)
    THEN overflow_panic(th, [reference EXCEPT
                                !.database_egress_size[table_name] = @ + egress_size])
    ELSE track_database_egress_size(th, table_name, egress_size, skip_logging)

\* The first `+=` of a vector call, on the database counter.
track_vector_ingress_size_overflow_checked(th, table_name, ingress_size, skip_logging) ==
    IF ~skip_logging /\ Overflows(Get(state.database_ingress_size, table_name), ingress_size)
    THEN overflow_panic(th, [reference EXCEPT
                                !.database_ingress_size[table_name] = @ + ingress_size,
                                !.vector_ingress_size[table_name] = @ + ingress_size])
    ELSE track_vector_ingress_size(th, table_name, ingress_size, skip_logging)

track_vector_egress_size_overflow_checked(th, table_name, egress_size, skip_logging) ==
    IF ~skip_logging /\ Overflows(Get(state.database_egress_size, table_name), egress_size)
    THEN overflow_panic(th, [reference EXCEPT
                                !.database_egress_size[table_name] = @ + egress_size,
                                !.vector_egress_size[table_name] = @ + egress_size])
    ELSE track_vector_egress_size(th, table_name, egress_size, skip_logging)

\* The panic of the second `+=` of a vector call, on the vector counter:
\* the database counter keeps the amount already added.
vector_overflow_panic(th, reference_after) ==
    /\ mutex = th
    /\ mutex' = NoThread
    /\ pc' = [pc EXCEPT ![th] = "panicked"]
    /\ local' = [local EXCEPT ![th] = NoCall]
    /\ reference' = reference_after
    /\ UNCHANGED <<state, ncalls, nskipped, disciplined, extracted, scopes>>

track_vector_ingress_size_vector_overflow_checked(th) ==
    /\ pc[th] = "vector_ingress"
    /\ IF Overflows(Get(state.vector_ingress_size, local[th].table_name), local[th].size)
       THEN vector_overflow_panic(th, [reference EXCEPT
                !.database_ingress_size[local[th].table_name] = @ + local[th].size,
                !.vector_ingress_size[local[th].table_name] = @ + local[th].size])
       ELSE track_vector_ingress_size_vector(th)

track_vector_egress_size_vector_overflow_checked(th) ==
    /\ pc[th] = "vector_egress"
    /\ IF Overflows(Get(state.vector_egress_size, local[th].table_name), local[th].size)
       THEN vector_overflow_panic(th, [reference EXCEPT
                !.database_egress_size[local[th].table_name] = @ + local[th].size,
                !.vector_egress_size[local[th].table_name] = @ + local[th].size])
       ELSE track_vector_egress_size_vector(th)

track_storage_ingress_size_overflow_checked(th, ingress_size) ==
    IF Overflows(state.storage_ingress_size, ingress_size)
    THEN overflow_panic(th, [reference EXCEPT !.storage_ingress_size = @ + ingress_size])
    ELSE track_storage_ingress_size(th, ingress_size)

track_storage_egress_size_overflow_checked(th, egress_size) ==
    IF Overflows(state.storage_egress_size, egress_size)
    THEN overflow_panic(th, [reference EXCEPT !.storage_egress_size = @ + egress_size])
    ELSE track_storage_egress_size(th, egress_size)

\* The panic is inside mutate_entry_or_default: no tracker is returned.
track_storage_call_overflow_checked(th, storage_api) ==
    IF Overflows(Get(state.storage_calls, storage_api), 1)
    THEN overflow_panic(th, [reference EXCEPT !.storage_calls[storage_api] = @ + 1])
    ELSE track_storage_call(th, storage_api)

\* The additions one map of `other` makes merge perform: <<field, key, amount>>.
MapAdditions(field, map, order) ==
    LET keys == SortedKeys(map, order)
    IN [i \in DOMAIN keys |-> <<field, keys[i], map[keys[i]]>>]

\* The additions of merge(self, other) in the order of its statements; the
\* key of a scalar is "".
MergeAdditions(other) ==
    MapAdditions("storage_calls", other.storage_calls, StorageAPIs)
    \o << <<"storage_ingress_size", "", other.storage_ingress_size>>,
          <<"storage_egress_size", "", other.storage_egress_size>> >>
    \o MapAdditions("database_ingress_size", other.database_ingress_size, TableNames)
    \o MapAdditions("database_egress_size", other.database_egress_size, TableNames)
    \o MapAdditions("vector_ingress_size", other.vector_ingress_size, TableNames)
    \o MapAdditions("vector_egress_size", other.vector_egress_size, TableNames)

\* merge as built with overflow checks: the additions are made in order up
\* to the first that does not fit, where merge panics and leaves self with
\* the additions made so far.
RECURSIVE merge_overflow_checked(_, _)
merge_overflow_checked(self, additions) ==
    IF additions = <<>>
    THEN [panicked |-> FALSE, stats |-> self]
    ELSE LET field == Head(additions)[1]
             key == Head(additions)[2]
             amount == Head(additions)[3]
         IN IF field \in MapFields
            THEN IF Overflows(Get(self[field], key), amount)
                 THEN [panicked |-> TRUE, stats |-> self]
                 ELSE merge_overflow_checked(
                          [self EXCEPT ![field] = MutateEntryOrDefault(@, key, amount)],
                          Tail(additions))
            ELSE IF Overflows(self[field], amount)
                 THEN [panicked |-> TRUE, stats |-> self]
                 ELSE merge_overflow_checked([self EXCEPT ![field] = AddU64(@, amount)],
                                             Tail(additions))

add_overflow_checked(th, stats) ==
    LET merged == merge_overflow_checked(state, MergeAdditions(stats))
    IN IF merged.panicked
       THEN /\ CanCall(th)
            /\ ncalls' = ncalls + 1
            /\ LockFree
            /\ state' = merged.stats
            /\ pc' = [pc EXCEPT ![th] = "panicked"]
            /\ reference' = ReferencePlus(reference, stats)
            /\ disciplined' = (disciplined /\ VectorWithinDatabase(stats))
            /\ UNCHANGED <<mutex, local, nskipped, extracted, scopes>>
       ELSE add(th, stats)

OverflowNext ==
    \/ \E th \in Threads, table_name \in Tables, size \in OverflowAmounts :
        \/ track_database_ingress_size(th, table_name, size, FALSE) /\ OutsideTracker
        \/ track_database_egress_size(th, table_name, size, FALSE) /\ OutsideTracker
        \/ track_vector_ingress_size(th, table_name, size, FALSE) /\ OutsideTracker
        \/ track_vector_egress_size(th, table_name, size, FALSE) /\ OutsideTracker
        \/ track_database_ingress_size_overflow_checked(th, table_name, size, FALSE)
              /\ OutsideTracker
        \/ track_database_egress_size_overflow_checked(th, table_name, size, FALSE)
              /\ OutsideTracker
        \/ track_vector_ingress_size_overflow_checked(th, table_name, size, FALSE)
              /\ OutsideTracker
        \/ track_vector_egress_size_overflow_checked(th, table_name, size, FALSE)
              /\ OutsideTracker
    \/ \E th \in Threads :
        \/ track_vector_ingress_size_vector(th) /\ OutsideTracker
        \/ track_vector_egress_size_vector(th) /\ OutsideTracker
        \/ track_vector_ingress_size_vector_overflow_checked(th) /\ OutsideTracker
        \/ track_vector_egress_size_vector_overflow_checked(th) /\ OutsideTracker
    \/ \E th \in Threads, size \in OverflowAmounts :
        \/ track_storage_ingress_size(th, size) /\ OutsideTracker
        \/ track_storage_egress_size(th, size) /\ OutsideTracker
        \/ track_storage_ingress_size_overflow_checked(th, size) /\ OutsideTracker
        \/ track_storage_egress_size_overflow_checked(th, size) /\ OutsideTracker
    \/ \E th \in Threads, storage_api \in Apis :
        \/ track_storage_call(th, storage_api) /\ OutsideTracker
        \/ track_storage_call_overflow_checked(th, storage_api) /\ OutsideTracker
    \/ \E th \in Threads, stats \in OverflowStats :
        \/ add(th, stats) /\ OutsideTracker
        \/ add_overflow_checked(th, stats) /\ OutsideTracker

SpecOverflow == Init /\ [][OverflowNext]_vars

(***************************************************************************)
(* merge as a function of its operands: the operands are drawn at the      *)
(* start, merge is applied to them, and a fresh tracker is handed them     *)
(* through add().                                                          *)
(***************************************************************************)
\* Every map over a subset of `keys` with counts up to MaxCount.
MapsOver(keys) == UNION {[D -> 0..MaxCount] : D \in SUBSET keys}

\* A map over storage APIs shaped like a map over tables (i-th key to i-th key).
OverApis(map) ==
    LET ix == {i \in DOMAIN TableNames : TableNames[i] \in DOMAIN map}
    IN [api \in {StorageAPIs[i] : i \in ix} |->
           map[TableNames[CHOOSE i \in ix : StorageAPIs[i] = api]]]

StatsSamples ==
    { [ storage_calls |-> OverApis(m),
        storage_ingress_size |-> k,
        storage_egress_size |-> MaxCount - k,
        database_ingress_size |-> m,
        database_egress_size |-> n,
        vector_ingress_size |-> n,
        vector_egress_size |-> m ] :
      m \in MapsOver(Tables), n \in MapsOver(Tables), k \in 0..MaxCount }

MergeInit ==
    /\ TrackerInit
    /\ merge_in \in [a : StatsSamples, b : NestedStats, c : NestedStats]
    /\ merge_out = None
    /\ CodecIdle
    /\ SinkInit
    /\ AggregateIdle

\* let mut x = a; x.merge(b); ... for each grouping and order of the operands.
apply_merge ==
    /\ merge_out = None
    /\ merge_out' = Some([ ab |-> merge(merge_in.a, merge_in.b),
                           ba |-> merge(merge_in.b, merge_in.a),
                           ab_c |-> merge(merge(merge_in.a, merge_in.b), merge_in.c),
                           a_bc |-> merge(merge_in.a, merge(merge_in.b, merge_in.c)),
                           a_default |-> merge(merge_in.a, Default) ])
    /\ UNCHANGED <<tracker_vars, merge_in, codec_vars, sink_vars, independent_vars,
                   aggregate_vars>>

\* The operand the tracker is handed next: a, then b, then c.
NextOperand ==
    CASE ncalls = 0 -> merge_in.a
      [] ncalls = 1 -> merge_in.b
      [] OTHER -> merge_in.c

MergeNext ==
    \/ apply_merge
    \/ \E th \in Threads : add(th, NextOperand) /\ OutsideTracker

SpecMerge == MergeInit /\ [][MergeNext]_vars


(***************************************************************************)
(* Conversion between FunctionUsageStats and FunctionUsageStatsProto.      *)
(* A repeated field is a sequence of CounterWithTagProto; an optional      *)
(* field is an Option.  A Result is Ok(value) or Err(message).             *)
(***************************************************************************)
\* Largest number of entries in a repeated field of a drawn message.
MaxEntries == 2

Ok(value) == [ok |-> TRUE, value |-> value]
Err(message) == [ok |-> FALSE, error |-> message]

\* The context messages of the errors (the source quotes the field's name
\* in backticks, left out here).
MissingTag == "Missing tag field"
MissingCount == "Missing count field"
MissingStorageIngress == "Missing storage_ingress_size field"
MissingStorageEgress == "Missing storage_egress_size field"

\* map.into_iter(): the (key, count) pairs in ascending key order.
IntoIter(map, order) ==
    LET keys == SortedKeys(map, order)
    IN [i \in DOMAIN keys |-> <<keys[i], map[keys[i]]>>]

\* Slip: entries whose count is zero are left out of the message.
to_by_tag_count_nonzero(counts) ==
    LET kept == SelectSeq(counts, LAMBDA c : c[2] # 0)
    IN [i \in DOMAIN kept |-> [name |-> Some(kept[i][1]), count |-> Some(kept[i][2])]]

to_by_tag_count(counts) ==
    [i \in DOMAIN counts |-> [name |-> Some(counts[i][1]), count |-> Some(counts[i][2])]]

\* Ok(the (name, count) pairs), or the Err of the first entry that lacks its
\* name or, having a name, its count.
from_by_tag_count(counts) ==
    LET bad == {i \in DOMAIN counts : counts[i].name = None \/ counts[i].count = None}
    IN IF bad = {}
       THEN Ok([i \in DOMAIN counts |->
                   <<Unwrap(counts[i].name), Unwrap(counts[i].count)>>])
       ELSE LET first == CHOOSE i \in bad : \A j \in bad : i <= j
            IN IF counts[first].name = None THEN Err(MissingTag) ELSE Err(MissingCount)

\* Iterator::collect() into a BTreeMap: of two pairs with one key the later stays.
RECURSIVE Collect(_)
Collect(pairs) ==
    IF pairs = <<>>
    THEN EmptyMap
    ELSE LET front == Collect(SubSeq(pairs, 1, Len(pairs) - 1))
             last == pairs[Len(pairs)]
         IN [k \in DOMAIN front \cup {last[1]} |->
                IF k = last[1] THEN last[2] ELSE front[k]]

\* impl From<FunctionUsageStats> for FunctionUsageStatsProto
ToProto(stats) ==
    [ storage_calls |-> to_by_tag_count(IntoIter(stats.storage_calls, StorageAPIs)),
      storage_ingress_size |-> Some(stats.storage_ingress_size),
      storage_egress_size |-> Some(stats.storage_egress_size),
      database_ingress_size |->
          to_by_tag_count(IntoIter(stats.database_ingress_size, TableNames)),
      database_egress_size |->
          to_by_tag_count(IntoIter(stats.database_egress_size, TableNames)),
      vector_ingress_size |->
          to_by_tag_count(IntoIter(stats.vector_ingress_size, TableNames)),
      vector_egress_size |->
          to_by_tag_count(IntoIter(stats.vector_egress_size, TableNames)) ]

\* Slip: an absent storage scalar read as zero (unwrap_or_default).
try_from_defaulting(proto) ==
    LET storage_calls == from_by_tag_count(proto.storage_calls)
        database_ingress_size == from_by_tag_count(proto.database_ingress_size)
        database_egress_size == from_by_tag_count(proto.database_egress_size)
        vector_ingress_size == from_by_tag_count(proto.vector_ingress_size)
        vector_egress_size == from_by_tag_count(proto.vector_egress_size)
        OrZero(option) == IF option = None THEN 0 ELSE Unwrap(option)
    IN
    IF ~storage_calls.ok THEN storage_calls
    ELSE IF ~database_ingress_size.ok THEN database_ingress_size
    ELSE IF ~database_egress_size.ok THEN database_egress_size
    ELSE IF ~vector_ingress_size.ok THEN vector_ingress_size
    ELSE IF ~vector_egress_size.ok THEN vector_egress_size
    ELSE Ok([ storage_calls |-> Collect(storage_calls.value),
              storage_ingress_size |-> OrZero(proto.storage_ingress_size),
              storage_egress_size |-> OrZero(proto.storage_egress_size),
              database_ingress_size |-> Collect(database_ingress_size.value),
              database_egress_size |-> Collect(database_egress_size.value),
              vector_ingress_size |-> Collect(vector_ingress_size.value),
              vector_egress_size |-> Collect(vector_egress_size.value) ])

\* Slip: of two pairs with one name the earlier stays (the map filled with
\* entry().or_insert()).
try_from_keeping_first(proto) ==
    LET storage_calls == from_by_tag_count(proto.storage_calls)
        database_ingress_size == from_by_tag_count(proto.database_ingress_size)
        database_egress_size == from_by_tag_count(proto.database_egress_size)
        vector_ingress_size == from_by_tag_count(proto.vector_ingress_size)
        vector_egress_size == from_by_tag_count(proto.vector_egress_size)
        First(pairs, k) ==
            CHOOSE i \in DOMAIN pairs :
                pairs[i][1] = k /\ \A j \in 1..(i - 1) : pairs[j][1] # k
        CollectFirst(pairs) ==
            [k \in {pairs[i][1] : i \in DOMAIN pairs} |-> pairs[First(pairs, k)][2]]
    IN
    IF ~storage_calls.ok THEN storage_calls
    ELSE IF proto.storage_ingress_size = None THEN Err(MissingStorageIngress)
    ELSE IF proto.storage_egress_size = None THEN Err(MissingStorageEgress)
    ELSE IF ~database_ingress_size.ok THEN database_ingress_size
    ELSE IF ~database_egress_size.ok THEN database_egress_size
    ELSE IF ~vector_ingress_size.ok THEN vector_ingress_size
    ELSE IF ~vector_egress_size.ok THEN vector_egress_size
    ELSE Ok([ storage_calls |-> CollectFirst(storage_calls.value),
              storage_ingress_size |-> Unwrap(proto.storage_ingress_size),
              storage_egress_size |-> Unwrap(proto.storage_egress_size),
              database_ingress_size |-> CollectFirst(database_ingress_size.value),
              database_egress_size |-> CollectFirst(database_egress_size.value),
              vector_ingress_size |-> CollectFirst(vector_ingress_size.value),
              vector_egress_size |-> CollectFirst(vector_egress_size.value) ])

\* impl TryFrom<FunctionUsageStatsProto> for FunctionUsageStats: each `?`
\* returns the first Err met, in the order of the statements.
try_from(proto) ==
    LET storage_calls == from_by_tag_count(proto.storage_calls)
        database_ingress_size == from_by_tag_count(proto.database_ingress_size)
        database_egress_size == from_by_tag_count(proto.database_egress_size)
        vector_ingress_size == from_by_tag_count(proto.vector_ingress_size)
        vector_egress_size == from_by_tag_count(proto.vector_egress_size)
    IN
    IF ~storage_calls.ok THEN storage_calls
    ELSE IF proto.storage_ingress_size = None THEN Err(MissingStorageIngress)
    ELSE IF proto.storage_egress_size = None THEN Err(MissingStorageEgress)
    ELSE IF ~database_ingress_size.ok THEN database_ingress_size
    ELSE IF ~database_egress_size.ok THEN database_egress_size
    ELSE IF ~vector_ingress_size.ok THEN vector_ingress_size
    ELSE IF ~vector_egress_size.ok THEN vector_egress_size
    ELSE Ok([ storage_calls |-> Collect(storage_calls.value),
              storage_ingress_size |-> Unwrap(proto.storage_ingress_size),
              storage_egress_size |-> Unwrap(proto.storage_egress_size),
              database_ingress_size |-> Collect(database_ingress_size.value),
              database_egress_size |-> Collect(database_egress_size.value),
              vector_ingress_size |-> Collect(vector_ingress_size.value),
              vector_egress_size |-> Collect(vector_egress_size.value) ])

\* The stats values handed to the conversion: empty, single-entry and full
\* maps, zero-valued entries, counters at the top of their range.
WireCounts == {0, 1, U64Max}
WireMapsOver(keys) == UNION {[D -> WireCounts] : D \in SUBSET keys}
WireStats ==
    { [ storage_calls |-> OverApis(n),
        storage_ingress_size |-> k,
        storage_egress_size |-> U64Max - k,
        database_ingress_size |-> m,
        database_egress_size |-> n,
        vector_ingress_size |-> n,
        vector_egress_size |-> m ] :
      m \in WireMapsOver(Tables), n \in WireMapsOver(Tables), k \in WireCounts }

\* The messages handed to the decoder: one repeated field holds any
\* sequence of up to MaxEntries entries, complete or lacking a sub-field,
\* names repeated or not; the other four hold a common short sequence; each
\* scalar is present or absent.
WireEntries ==
    [name : {None} \cup {Some(t) : t \in Tables}, count : {None, Some(1), Some(U64Max)}]
WireSeqs == UNION {[1..n -> WireEntries] : n \in 0..MaxEntries}
WireRest ==
    { <<>>,
      <<[name |-> Some("docs"), count |-> Some(1)]>>,
      <<[name |-> Some("docs"), count |-> None]>>,
      <<[name |-> None, count |-> Some(1)]>> }
WireScalars == {None, Some(0), Some(U64Max)}
WireMessages ==
    { [f \in MapFields |-> IF f = varied THEN entries ELSE rest]
        @@ [storage_ingress_size |-> si, storage_egress_size |-> se] :
      varied \in MapFields, entries \in WireSeqs, rest \in WireRest,
      si \in WireScalars, se \in WireScalars }

CodecInit ==
    /\ TrackerInit
    /\ MergeIdle
    /\ SinkInit
    /\ AggregateIdle
    /\ wire_result = None
    /\ \/ wire_stats \in {Some(stats) : stats \in WireStats} /\ wire_msg = None
       \/ wire_stats = None /\ wire_msg \in {Some(proto) : proto \in WireMessages}

\* FunctionUsageStatsProto::from(stats)
encode ==
    /\ wire_stats # None
    /\ wire_msg = None
    /\ wire_msg' = Some(ToProto(Unwrap(wire_stats)))
    /\ UNCHANGED <<wire_stats, wire_result>>

\* FunctionUsageStats::try_from(proto)
decode ==
    /\ wire_msg # None
    /\ wire_result = None
    /\ wire_result' = Some(try_from(Unwrap(wire_msg)))
    /\ UNCHANGED <<wire_stats, wire_msg>>

CodecNext ==
    \/ encode /\ UNCHANGED <<tracker_vars, merge_vars, sink_vars, independent_vars, aggregate_vars>>
    \/ decode /\ UNCHANGED <<tracker_vars, merge_vars, sink_vars, independent_vars, aggregate_vars>>

SpecCodec == CodecInit /\ [][CodecNext]_vars

(***************************************************************************)
(* UsageCounter: the fan-out of a finished call's stats into usage events, *)
(* handed to the usage logger as one batch per record() call.              *)
(***************************************************************************)
\* Number of calls reported to one UsageCounter.
MaxReports == 1

\* UdfIdentifier: Function(path), Http(route) or Cli(name); `text` is what
\* to_string() renders, `is_system` what path.is_system() answers.
UdfIdentifiers ==
    { [variant |-> "Function", text |-> "messages:send", is_system |-> FALSE],
      [variant |-> "Function", text |-> "_system/cli/tables", is_system |-> TRUE],
      [variant |-> "Http", text |-> "GET /hook", is_system |-> FALSE],
      [variant |-> "Cli", text |-> "_cli/convex_import", is_system |-> FALSE] }

ExecutionIds == {"exec-1", "exec-2"}

\* CallType; env, duration (ms) and memory_in_mb are carried by Action,
\* duration and memory_in_mb by HttpAction, nothing by the others.
CallTypes ==
    [variant : {"Action"}, env : {"isolate", "node"}, duration : {7}, memory_in_mb : {64}]
    \cup [variant : {"HttpAction"}, env : {""}, duration : {3}, memory_in_mb : {32}]
    \cup [variant : {"Export", "CachedQuery", "UncachedQuery", "Mutation", "Import"},
          env : {""}, duration : {0}, memory_in_mb : {0}]

tag(call_type) ==
    CASE call_type.variant = "Action" -> "action"
      [] call_type.variant = "Export" -> "export"
      [] call_type.variant = "CachedQuery" -> "cached_query"
      [] call_type.variant = "UncachedQuery" -> "uncached_query"
      [] call_type.variant = "Mutation" -> "mutation"
      [] call_type.variant = "HttpAction" -> "http_action"
      [] call_type.variant = "Import" -> "import"

memory_megabytes(call_type) ==
    IF call_type.variant \in {"Action", "HttpAction"} THEN call_type.memory_in_mb ELSE 0

duration_millis(call_type) ==
    IF call_type.variant \in {"Action", "HttpAction"} THEN call_type.duration ELSE 0

environment(call_type) ==
    IF call_type.variant = "Action" THEN call_type.env ELSE "isolate"

\* for (storage_api, function_count) in stats.storage_calls { push(..) }
StorageCallsEvents(udf_path, storage_calls, execution_id) ==
    LET keys == SortedKeys(storage_calls, StorageAPIs)
    IN [i \in DOMAIN keys |->
           [type |-> "FunctionStorageCalls", id |-> execution_id,
            udf_id |-> udf_path.text, call |-> keys[i], count |-> storage_calls[keys[i]]]]

\* Slip: the count of an ingress entry written to both fields of its event.
IngressEvents_in_both_fields(type, udf_path, by_table, execution_id) ==
    LET keys == SortedKeys(by_table, TableNames)
    IN [i \in DOMAIN keys |->
           [type |-> type, id |-> execution_id, udf_id |-> udf_path.text,
            table_name |-> keys[i], ingress |-> by_table[keys[i]],
            egress |-> by_table[keys[i]]]]

\* for (table_name, ingress_size) in <by-table map> { push(..) }: an event
\* of the given type per entry, the count in `ingress` and 0 in `egress`.
IngressEvents(type, udf_path, by_table, execution_id) ==
    LET keys == SortedKeys(by_table, TableNames)
    IN [i \in DOMAIN keys |->
           [type |-> type, id |-> execution_id, udf_id |-> udf_path.text,
            table_name |-> keys[i], ingress |-> by_table[keys[i]], egress |-> 0]]

\* Slip: entries whose count is zero produce no event.
EgressEvents_nonzero(type, udf_path, by_table, execution_id) ==
    LET keys == SelectSeq(SortedKeys(by_table, TableNames), LAMBDA k : by_table[k] # 0)
    IN [i \in DOMAIN keys |->
           [type |-> type, id |-> execution_id, udf_id |-> udf_path.text,
            table_name |-> keys[i], ingress |-> 0, egress |-> by_table[keys[i]]]]

\* for (table_name, egress_size) in <by-table map> { push(..) }: an event
\* of the given type per entry, 0 in `ingress` and the count in `egress`.
EgressEvents(type, udf_path, by_table, execution_id) ==
    LET keys == SortedKeys(by_table, TableNames)
    IN [i \in DOMAIN keys |->
           [type |-> type, id |-> execution_id, udf_id |-> udf_path.text,
            table_name |-> keys[i], ingress |-> 0, egress |-> by_table[keys[i]]]]

\* Slip: the storage bandwidth event pushed only when there was storage
\* bandwidth.
_track_function_usage_skipping_zero_storage(udf_path, stats, execution_id, usage_metrics) ==
    usage_metrics
    \o StorageCallsEvents(udf_path, stats.storage_calls, execution_id)
    \o (IF stats.storage_ingress_size = 0 /\ stats.storage_egress_size = 0
        THEN <<>>
        ELSE << [type |-> "FunctionStorageBandwidth", id |-> execution_id,
                 udf_id |-> udf_path.text,
                 ingress |-> stats.storage_ingress_size,
                 egress |-> stats.storage_egress_size] >>)
    \o IngressEvents("DatabaseBandwidth", udf_path, stats.database_ingress_size, execution_id)
    \o EgressEvents("DatabaseBandwidth", udf_path, stats.database_egress_size, execution_id)
    \o IngressEvents("VectorBandwidth", udf_path, stats.vector_ingress_size, execution_id)
    \o EgressEvents("VectorBandwidth", udf_path, stats.vector_egress_size, execution_id)

\* UsageCounter::_track_function_usage: usage_metrics after the pushes.
_track_function_usage(udf_path, stats, execution_id, usage_metrics) ==
    usage_metrics
    \o StorageCallsEvents(udf_path, stats.storage_calls, execution_id)
    \o << [type |-> "FunctionStorageBandwidth", id |-> execution_id,
           udf_id |-> udf_path.text,
           ingress |-> stats.storage_ingress_size,
           egress |-> stats.storage_egress_size] >>
    \o IngressEvents("DatabaseBandwidth", udf_path, stats.database_ingress_size, execution_id)
    \o EgressEvents("DatabaseBandwidth", udf_path, stats.database_egress_size, execution_id)
    \o IngressEvents("VectorBandwidth", udf_path, stats.vector_ingress_size, execution_id)
    \o EgressEvents("VectorBandwidth", udf_path, stats.vector_egress_size, execution_id)

\* The UsageEvent::FunctionCall that track_call pushes.
FunctionCallEvent(udf_path, execution_id, call_type) ==
    [ type |-> "FunctionCall",
      id |-> execution_id,
      udf_id |-> udf_path.text,
      udf_id_type |-> CASE udf_path.variant = "Function" -> "function"
                        [] udf_path.variant = "Http" -> "http"
                        [] udf_path.variant = "Cli" -> "cli",
      tag |-> tag(call_type),
      memory_megabytes |-> memory_megabytes(call_type),
      duration_millis |-> duration_millis(call_type),
      environment |-> environment(call_type),
      is_tracked |-> CASE udf_path.variant = "Function" -> ~udf_path.is_system
                       [] udf_path.variant = "Http" -> TRUE
                       [] udf_path.variant = "Cli" -> FALSE ]

\* self.usage_logger.record(usage_metrics)
Record(usage_metrics, report) ==
    /\ logger' = Append(logger, usage_metrics)
    /\ reported' = Append(reported, report)

\* Slip: the FunctionCall event pushed after the bandwidth events.
track_call_summary_last(udf_path, execution_id, call_type, stats) ==
    Record(_track_function_usage(udf_path, stats, execution_id, <<>>)
               \o <<FunctionCallEvent(udf_path, execution_id, call_type)>>,
           [entry |-> "track_call", udf_path |-> udf_path,
            execution_id |-> execution_id, call_type |-> call_type, stats |-> stats])

\* Slip: the bandwidth of a call that is not counted is not reported either.
track_call_skipping_untracked_bandwidth(udf_path, execution_id, call_type, stats) ==
    LET summary == FunctionCallEvent(udf_path, execution_id, call_type)
    IN Record(IF summary.is_tracked
              THEN _track_function_usage(udf_path, stats, execution_id, <<summary>>)
              ELSE <<summary>>,
              [entry |-> "track_call", udf_path |-> udf_path,
               execution_id |-> execution_id, call_type |-> call_type, stats |-> stats])

\* UsageCounter::track_call
track_call(udf_path, execution_id, call_type, stats) ==
    Record(_track_function_usage(udf_path, stats, execution_id,
                                 <<FunctionCallEvent(udf_path, execution_id, call_type)>>),
           [entry |-> "track_call", udf_path |-> udf_path,
            execution_id |-> execution_id, call_type |-> call_type, stats |-> stats])

\* Slip: the legacy entry point routed through the summary of a mutation.
track_function_usage_with_summary(udf_path, execution_id, stats) ==
    Record(_track_function_usage(
               udf_path, stats, execution_id,
               <<FunctionCallEvent(udf_path, execution_id,
                                   [variant |-> "Mutation", env |-> "",
                                    duration |-> 0, memory_in_mb |-> 0])>>),
           [entry |-> "track_function_usage", udf_path |-> udf_path,
            execution_id |-> execution_id, stats |-> stats])

\* UsageCounter::track_function_usage
track_function_usage(udf_path, execution_id, stats) ==
    Record(_track_function_usage(udf_path, stats, execution_id, <<>>),
           [entry |-> "track_function_usage", udf_path |-> udf_path,
            execution_id |-> execution_id, stats |-> stats])

\* The stats of a finished call: what a tracker can have gathered, among
\* them one with no storage bandwidth, two storage APIs called and a table
\* both written and read.
ReportedStats ==
    NestedStats
    \cup { [Default EXCEPT !.storage_calls = ("getUrl" :> 2) @@ ("store" :> 1),
                           !.database_ingress_size = ("docs" :> 2),
                           !.database_egress_size = ("docs" :> 1) @@ ("users" :> 0),
                           !.vector_ingress_size = ("docs" :> 1),
                           !.vector_egress_size = ("docs" :> 1)] }

SinkNext ==
    \/ \E udf_path \in UdfIdentifiers, execution_id \in ExecutionIds,
          call_type \in CallTypes, stats \in ReportedStats :
          /\ Len(logger) < MaxReports
          /\ track_call(udf_path, execution_id, call_type, stats)
          /\ UNCHANGED <<tracker_vars, merge_vars, codec_vars, independent_vars,
                         aggregate_vars>>
    \/ \E udf_path \in UdfIdentifiers, execution_id \in ExecutionIds, stats \in ReportedStats :
          /\ Len(logger) < MaxReports
          /\ track_function_usage(udf_path, execution_id, stats)
          /\ UNCHANGED <<tracker_vars, merge_vars, codec_vars, independent_vars,
                         aggregate_vars>>

SpecSink == Init /\ [][SinkNext]_vars

(***************************************************************************)
(* Reports side by side: executions that ran under one execution id and    *)
(* gathered the same stats, reported under any identity and call type      *)
(* through either entry point, so that their batches can be compared.      *)
(***************************************************************************)
\* Number of reports set side by side.
MaxSideBySide == 2

SideBySideExecution == "exec-1"
SideBySideStats == {stats \in ReportedStats : Cardinality(DOMAIN stats.storage_calls) = 2}

SideBySideNext ==
    \/ \E udf_path \in UdfIdentifiers, call_type \in CallTypes, stats \in SideBySideStats :
          /\ Len(logger) < MaxSideBySide
          /\ track_call(udf_path, SideBySideExecution, call_type, stats)
          /\ UNCHANGED <<tracker_vars, merge_vars, codec_vars, independent_vars,
                         aggregate_vars>>
    \/ \E udf_path \in UdfIdentifiers, stats \in SideBySideStats :
          /\ Len(logger) < MaxSideBySide
          /\ track_function_usage(udf_path, SideBySideExecution, stats)
          /\ UNCHANGED <<tracker_vars, merge_vars, codec_vars, independent_vars,
                         aggregate_vars>>

SpecSideBySide == Init /\ [][SideBySideNext]_vars

(***************************************************************************)
(* Storage calls outside any function: UsageCounter::track_storage_call    *)
(* and the IndependentStorageCallTracker it returns.  Every record() call  *)
(* hands the logger a batch of one event.  Between the generation of its   *)
(* identifier and its record() call, a track_storage_call is in flight and *)
(* other callers' steps may come in between.                               *)
(***************************************************************************)
\* Number of storage calls tracked on the UsageCounter.
MaxScopes == 2
\* Number of ingress/egress recordings on the trackers returned.
MaxTransfers == 2

\* Byte amounts of a recording: none, and the largest.
TransferSizes == {0, MaxBytes}

\* ExecutionId::new(): an identifier no earlier call was given, as rendered
\* by to_string().
NewExecutionId == "storage-" \o ToString(execution_ids + 1)

\* let execution_id = ExecutionId::new();
UsageCounter_track_storage_call_begin(storage_api) ==
    /\ execution_ids < MaxScopes
    /\ execution_ids' = execution_ids + 1
    /\ in_flight' = in_flight \cup {[execution_id |-> NewExecutionId, call |-> storage_api]}
    /\ UNCHANGED <<logger, reported, independent>>

\* Slip: the tracker is handed out without the StorageCall event recorded.
UsageCounter_track_storage_call_unrecorded(call) ==
    /\ call \in in_flight
    /\ in_flight' = in_flight \ {call}
    /\ independent' = independent \cup {call.execution_id}
    /\ UNCHANGED <<logger, reported, execution_ids>>

\* self.usage_logger.record(vec![StorageCall]); Box::new(tracker)
UsageCounter_track_storage_call(call) ==
    /\ call \in in_flight
    /\ Record(<< [type |-> "StorageCall", id |-> call.execution_id, call |-> call.call] >>,
              [entry |-> "track_storage_call", execution_id |-> call.execution_id,
               storage_api |-> call.call])
    /\ in_flight' = in_flight \ {call}
    /\ independent' = independent \cup {call.execution_id}
    /\ UNCHANGED execution_ids

\* impl StorageCallTracker for IndependentStorageCallTracker
Independent_track_storage_ingress_size(execution_id, ingress_size) ==
    /\ execution_id \in independent
    /\ Record(<< [type |-> "StorageBandwidth", id |-> execution_id,
                  ingress |-> ingress_size, egress |-> 0] >>,
              [entry |-> "track_storage_ingress_size", execution_id |-> execution_id,
               size |-> ingress_size])
    /\ UNCHANGED independent_vars

Independent_track_storage_egress_size(execution_id, egress_size) ==
    /\ execution_id \in independent
    /\ Record(<< [type |-> "StorageBandwidth", id |-> execution_id,
                  ingress |-> 0, egress |-> egress_size] >>,
              [entry |-> "track_storage_egress_size", execution_id |-> execution_id,
               size |-> egress_size])
    /\ UNCHANGED independent_vars

\* The number of recordings made so far on the trackers returned.
Transfers == Cardinality({i \in DOMAIN logger : logger[i][1].type = "StorageBandwidth"})

IndependentNext ==
    \/ \E storage_api \in Apis :
          /\ UsageCounter_track_storage_call_begin(storage_api)
          /\ UNCHANGED <<tracker_vars, merge_vars, codec_vars, aggregate_vars>>
    \/ \E call \in in_flight :
          /\ UsageCounter_track_storage_call(call)
          /\ UNCHANGED <<tracker_vars, merge_vars, codec_vars, aggregate_vars>>
    \/ \E execution_id \in independent, size \in TransferSizes :
          /\ Transfers < MaxTransfers
          /\ Independent_track_storage_ingress_size(execution_id, size)
          /\ UNCHANGED <<tracker_vars, merge_vars, codec_vars, aggregate_vars>>
    \/ \E execution_id \in independent, size \in TransferSizes :
          /\ Transfers < MaxTransfers
          /\ Independent_track_storage_egress_size(execution_id, size)
          /\ UNCHANGED <<tracker_vars, merge_vars, codec_vars, aggregate_vars>>

SpecIndependent == Init /\ [][IndependentNext]_vars

(***************************************************************************)
(* Properties of the tracker, checked under Spec.                          *)
(***************************************************************************)
\* C1: in every reachable state of a tracker that started empty and was
\* driven by any interleaving of tracking calls and of add() of stats that
\* themselves satisfy it, each table's vector ingress/egress is at most its
\* database ingress/egress (an absent key counts as zero).
C1_VectorWithinDatabase == disciplined => VectorWithinDatabase(state)

\* A vector call on a table that also saw plain database traffic, after an
\* add(): the vector counter is positive and strictly below the database's.
C1_Witness ==
    /\ disciplined
    /\ ncalls = MaxCalls
    /\ mutex = NoThread
    /\ \E t \in Tables :
        /\ Get(state.vector_egress_size, t) > 0
        /\ Get(state.database_egress_size, t) > Get(state.vector_egress_size, t)

\* C2: whatever the interleaving of the threads' calls, what
\* gather_user_stats() returns carries, for every counter, exactly the sum
\* of the amounts of the completed calls addressing it.
C2_ExtractIsReferenceAccumulation ==
    [][\A th \in Threads :
         gather_user_stats(th) =>
             MatchesReference(Unwrap(extracted'), reference)]_vars

\* An extraction after MaxCalls calls that left usage on both sides.
C2_Witness ==
    /\ extracted # None
    /\ ncalls = MaxCalls
    /\ nskipped = 0
    /\ MatchesReference(Unwrap(extracted), reference)
    /\ \E t \in Tables : Get(Unwrap(extracted).database_egress_size, t) > 0
    /\ \E t \in Tables : Get(Unwrap(extracted).vector_ingress_size, t) > 0

\* C8: a vector ingress call with skip_logging = false leaves both the
\* table's database ingress counter and its vector ingress counter larger
\* by exactly the byte amount than it found them, and so does a vector
\* egress call for the egress counters; on a fresh tracker both counters
\* equal the byte amount.
C8_VectorCallAddsToBoth ==
    [][\A th \in Threads :
         LET t == local[th].table_name
             b == local[th].size
             e == local[th].entry
         IN
         /\ track_vector_ingress_size_vector(th) =>
              /\ Get(state'.database_ingress_size, t) = Get(e.database_ingress_size, t) + b
              /\ Get(state'.vector_ingress_size, t) = Get(e.vector_ingress_size, t) + b
              /\ e = Default =>
                   /\ state'.database_ingress_size = (t :> b)
                   /\ state'.vector_ingress_size = (t :> b)
         /\ track_vector_egress_size_vector(th) =>
              /\ Get(state'.database_egress_size, t) = Get(e.database_egress_size, t) + b
              /\ Get(state'.vector_egress_size, t) = Get(e.vector_egress_size, t) + b
              /\ e = Default =>
                   /\ state'.database_egress_size = (t :> b)
                   /\ state'.vector_egress_size = (t :> b)]_vars

\* A vector ingress call on a fresh tracker followed by a vector egress call.
C8_Witness ==
    /\ ncalls = 2
    /\ nskipped = 0
    /\ mutex = NoThread
    /\ state.database_ingress_size = ("docs" :> MaxBytes)
    /\ state.vector_ingress_size = ("docs" :> MaxBytes)
    /\ state.database_egress_size = ("users" :> 1)
    /\ state.vector_egress_size = ("users" :> 1)

\* C9: a database or vector tracking call with skip_logging = true leaves
\* the tracker's stats (scalars, map values and key sets) as they were.
C9_SkipLeavesStats == [][nskipped' # nskipped => state' = state]_vars

\* A skipped call issued on a tracker that already holds usage.
C9_Witness ==
    /\ nskipped > 0
    /\ ncalls = MaxCalls
    /\ state # Default

(***************************************************************************)
(* Properties of merge, checked under SpecMerge.                           *)
(***************************************************************************)
\* `sum` is the pointwise sum of x and y: scalars added, every map holding
\* exactly the keys of either operand, each with the sum of the two counts.
IsPointwiseSum(sum, x, y) ==
    /\ sum.storage_ingress_size = x.storage_ingress_size + y.storage_ingress_size
    /\ sum.storage_egress_size = x.storage_egress_size + y.storage_egress_size
    /\ \A f \in MapFields :
        /\ DOMAIN sum[f] = DOMAIN x[f] \cup DOMAIN y[f]
        /\ \A k \in DOMAIN sum[f] : sum[f][k] = Get(x[f], k) + Get(y[f], k)

\* C3: merge is commutative and associative, every scalar and every map
\* (key set included) compared.
C3_MergeCommutativeAssociative ==
    merge_out # None =>
        /\ Unwrap(merge_out).ab = Unwrap(merge_out).ba
        /\ Unwrap(merge_out).ab_c = Unwrap(merge_out).a_bc

\* Operands that overlap on a key and each bring a key of their own, so
\* that the order of folding could show.
C3_Witness ==
    /\ merge_out # None
    /\ \E t \in DOMAIN merge_in.a.database_egress_size
                  \cap DOMAIN merge_in.b.database_egress_size :
           merge_in.a.database_egress_size[t] > 0 /\ merge_in.b.database_egress_size[t] > 0
    /\ DOMAIN merge_in.a.storage_calls # DOMAIN merge_in.b.storage_calls
    /\ merge_in.b # merge_in.c
    /\ merge_in.c # Default
    /\ Unwrap(merge_out).ab # merge_in.a

\* C4: merge(self, other) and the tracker's add(stats) produce the pointwise
\* sum: no key of either operand lost, none absent from both appearing.
C4_MergeIsPointwiseSum ==
    [][/\ merge_out' # merge_out =>
            IsPointwiseSum(Unwrap(merge_out').ab, merge_in.a, merge_in.b)
       /\ \A th \in Threads :
            add(th, NextOperand) => IsPointwiseSum(state', state, NextOperand)]_vars

\* Two operands with usage folded into a tracker, and merge applied to them.
C4_Witness ==
    /\ merge_out # None
    /\ ncalls = 2
    /\ merge_in.a.database_ingress_size # EmptyMap
    /\ merge_in.b.database_ingress_size # EmptyMap
    /\ DOMAIN merge_in.a.database_egress_size # DOMAIN merge_in.b.database_egress_size
    /\ state = Unwrap(merge_out).ab

\* C5: the default stats value is the identity of merge: merge(A, default()) = A.
C5_DefaultIsIdentity == merge_out # None => Unwrap(merge_out).a_default = merge_in.a

\* An operand with entries, zero-valued ones among them, and a nonzero scalar.
C5_Witness ==
    /\ merge_out # None
    /\ merge_in.a.storage_ingress_size > 0
    /\ \E t \in DOMAIN merge_in.a.database_ingress_size : merge_in.a.database_ingress_size[t] = 0
    /\ \E t \in DOMAIN merge_in.a.database_egress_size : merge_in.a.database_egress_size[t] > 0

(***************************************************************************)
(* Properties of the conversion, checked under SpecCodec.                  *)
(***************************************************************************)
\* C6: the round trip through the message is lossless: converting any stats
\* value to a message and back succeeds and yields the value.
C6_RoundTrip ==
    (wire_stats # None /\ wire_result # None) =>
        Unwrap(wire_result) = Ok(Unwrap(wire_stats))

\* A round trip of a value with an empty map, a single-entry map, a
\* zero-valued entry and a counter at the top of its range.
C6_Witness ==
    /\ wire_stats # None
    /\ wire_result # None
    /\ Unwrap(wire_stats).storage_calls = EmptyMap
    /\ Unwrap(wire_stats).database_ingress_size = ("users" :> 0)
    /\ Unwrap(wire_stats).storage_egress_size = U64Max
    /\ Unwrap(wire_stats).storage_ingress_size = 0

\* The messages a decoder may name for what a message lacks.
AbsentFields(proto) ==
    (IF proto.storage_ingress_size = None THEN {MissingStorageIngress} ELSE {})
    \cup (IF proto.storage_egress_size = None THEN {MissingStorageEgress} ELSE {})
    \cup (IF \E f \in MapFields : \E i \in DOMAIN proto[f] : proto[f][i].name = None
          THEN {MissingTag} ELSE {})
    \cup (IF \E f \in MapFields : \E i \in DOMAIN proto[f] : proto[f][i].count = None
          THEN {MissingCount} ELSE {})

\* C7: decoding fails exactly when a storage scalar is absent or an entry of
\* one of the five repeated fields lacks its name or its count; the error
\* then names a field that is absent (an entry's name under the label
\* tag); otherwise decoding succeeds with the scalars the message carries.
C7_DecodeMissingField ==
    (wire_stats = None /\ wire_result # None) =>
        LET proto == Unwrap(wire_msg)
            result == Unwrap(wire_result)
        IN /\ ~result.ok <=> AbsentFields(proto) # {}
           /\ ~result.ok => result.error \in AbsentFields(proto)
           /\ result.ok =>
                /\ result.value.storage_ingress_size = Unwrap(proto.storage_ingress_size)
                /\ result.value.storage_egress_size = Unwrap(proto.storage_egress_size)

\* A message complete but for its storage-ingress scalar was decoded.
C7_Witness ==
    /\ wire_stats = None
    /\ wire_result # None
    /\ Unwrap(wire_msg).storage_ingress_size = None
    /\ Unwrap(wire_msg).storage_egress_size # None
    /\ \A f \in MapFields : \A i \in DOMAIN Unwrap(wire_msg)[f] :
          Unwrap(wire_msg)[f][i].name # None /\ Unwrap(wire_msg)[f][i].count # None
    /\ Unwrap(wire_msg).database_ingress_size # <<>>
    /\ Unwrap(wire_result) = Err(MissingStorageIngress)

(***************************************************************************)
(* Properties of the event fan-out, checked under SpecSink.                *)
(***************************************************************************)
BandwidthEventTypes ==
    {"FunctionStorageCalls", "FunctionStorageBandwidth", "DatabaseBandwidth", "VectorBandwidth"}

\* C10: track_call hands the logger one batch, whose first event is a
\* FunctionCall event and the only one; every storage, database and vector
\* event derived from the stats comes after it in that batch.
C10_FunctionCallFirst ==
    /\ Len(logger) = Len(reported)
    /\ \A i \in DOMAIN logger :
         reported[i].entry = "track_call" =>
           /\ logger[i] # <<>>
           /\ logger[i][1].type = "FunctionCall"
           /\ \A j \in DOMAIN logger[i] :
                /\ logger[i][j].type = "FunctionCall" => j = 1
                /\ logger[i][j].type \in BandwidthEventTypes => j > 1
           /\ \E j \in DOMAIN logger[i] : logger[i][j].type = "FunctionStorageBandwidth"

\* A reported call whose stats fan out into events of every kind.
C10_Witness ==
    \E i \in DOMAIN logger :
        /\ reported[i].entry = "track_call"
        /\ \A type \in BandwidthEventTypes :
              \E j \in DOMAIN logger[i] : logger[i][j].type = type

\* The events of one type about one table in a batch, in batch order, each
\* as its <<ingress, egress>>.
TableEvents(batch, type, table) ==
    LET about == SelectSeq(batch, LAMBDA e : e.type = type /\ e.table_name = table)
    IN [i \in DOMAIN about |-> <<about[i].ingress, about[i].egress>>]

\* The events a by-table pair of maps stands for on one table: one for the
\* table's ingress entry, if any, then one for its egress entry, if any.
EntryEvents(ingress_map, egress_map, table) ==
    (IF table \in DOMAIN ingress_map THEN << <<ingress_map[table], 0>> >> ELSE <<>>)
    \o (IF table \in DOMAIN egress_map THEN << <<0, egress_map[table]>> >> ELSE <<>>)

\* C11 as stated: a batch of track_call holds exactly one DatabaseBandwidth
\* event per table with nonzero database ingress or egress in the stats and
\* none for any other table, and likewise for VectorBandwidth.
C11_OneEventPerNonzeroTable ==
    \A i \in DOMAIN logger :
        reported[i].entry = "track_call" =>
            \A t \in Tables :
                /\ Len(TableEvents(logger[i], "DatabaseBandwidth", t)) =
                     (IF \/ Get(reported[i].stats.database_ingress_size, t) # 0
                         \/ Get(reported[i].stats.database_egress_size, t) # 0
                      THEN 1 ELSE 0)
                /\ Len(TableEvents(logger[i], "VectorBandwidth", t)) =
                     (IF \/ Get(reported[i].stats.vector_ingress_size, t) # 0
                         \/ Get(reported[i].stats.vector_egress_size, t) # 0
                      THEN 1 ELSE 0)

\* C11, amended: a batch of track_call holds, per table, one
\* DatabaseBandwidth event for the table's entry in database_ingress_size
\* (its count as ingress, egress 0) and a separate one for its entry in
\* database_egress_size (ingress 0, its count as egress), an entry counting
\* whatever its count, zero included; a table that is a key of neither map
\* gets none.  Likewise VectorBandwidth and the two vector maps.
C11_OneEventPerEntry ==
    \A i \in DOMAIN logger :
        reported[i].entry = "track_call" =>
            \A t \in Tables :
                /\ TableEvents(logger[i], "DatabaseBandwidth", t) =
                     EntryEvents(reported[i].stats.database_ingress_size,
                                 reported[i].stats.database_egress_size, t)
                /\ TableEvents(logger[i], "VectorBandwidth", t) =
                     EntryEvents(reported[i].stats.vector_ingress_size,
                                 reported[i].stats.vector_egress_size, t)

\* A reported call whose stats hold a table both written and read, a table
\* with a zero-valued entry and a table absent from a map.
C11_Witness ==
    \E i \in DOMAIN logger :
        /\ reported[i].entry = "track_call"
        /\ Len(TableEvents(logger[i], "DatabaseBandwidth", "docs")) = 2
        /\ TableEvents(logger[i], "DatabaseBandwidth", "users") = << <<0, 0>> >>
        /\ TableEvents(logger[i], "VectorBandwidth", "users") = <<>>

\* C12: every batch of track_call holds exactly one FunctionStorageBandwidth
\* event, carrying the stats' storage_ingress_size and storage_egress_size
\* (also when both are zero), and per key of storage_calls exactly one
\* FunctionStorageCalls event, carrying the key's count; no
\* FunctionStorageCalls event names another API.
C12_StorageEvents ==
    \A i \in DOMAIN logger :
        reported[i].entry = "track_call" =>
            LET stats == reported[i].stats
                bandwidth == SelectSeq(logger[i], LAMBDA e : e.type = "FunctionStorageBandwidth")
                calls == SelectSeq(logger[i], LAMBDA e : e.type = "FunctionStorageCalls")
            IN /\ Len(bandwidth) = 1
               /\ bandwidth[1].ingress = stats.storage_ingress_size
               /\ bandwidth[1].egress = stats.storage_egress_size
               /\ Len(calls) = Cardinality(DOMAIN stats.storage_calls)
               /\ \A api \in DOMAIN stats.storage_calls :
                     \E j \in DOMAIN calls :
                         /\ calls[j].call = api
                         /\ calls[j].count = stats.storage_calls[api]
                         /\ \A k \in DOMAIN calls : calls[k].call = api => k = j

\* A reported call that made no storage traffic and called two storage APIs.
C12_Witness ==
    \E i \in DOMAIN logger :
        /\ reported[i].entry = "track_call"
        /\ reported[i].stats.storage_ingress_size = 0
        /\ reported[i].stats.storage_egress_size = 0
        /\ Cardinality(DOMAIN reported[i].stats.storage_calls) = 2
        /\ \E j \in DOMAIN logger[i] :
              /\ logger[i][j].type = "FunctionStorageBandwidth"
              /\ logger[i][j].ingress = 0
              /\ logger[i][j].egress = 0

(***************************************************************************)
(* Properties of reports set side by side, checked under SpecSideBySide.   *)
(***************************************************************************)
\* A sequence of events with the udf_id label taken off each.
WithoutUdfId(events) ==
    [k \in DOMAIN events |->
        [f \in DOMAIN events[k] \ {"udf_id"} |-> events[k][f]]]

\* C13: track_call marks the FunctionCall event of a system function as not
\* counted (is_tracked = FALSE) and that of a user function as counted,
\* while the storage, database and vector events of two calls reported with
\* the same stats are the same whatever the identities' classification and
\* the call types: event for event they differ at most in the udf_id label,
\* and not at all when the identity is the same.
C13_BandwidthWhateverTheCaller ==
    \A i \in DOMAIN logger :
        reported[i].entry = "track_call" =>
            /\ reported[i].udf_path.variant = "Function" =>
                    logger[i][1].is_tracked = ~reported[i].udf_path.is_system
            /\ \A k \in DOMAIN Tail(logger[i]) :
                    Tail(logger[i])[k].type \in BandwidthEventTypes
            /\ \A j \in DOMAIN logger :
                    ( /\ reported[j].entry = "track_call"
                      /\ reported[j].stats = reported[i].stats
                      /\ reported[j].execution_id = reported[i].execution_id ) =>
                        /\ WithoutUdfId(Tail(logger[i])) = WithoutUdfId(Tail(logger[j]))
                        /\ reported[j].udf_path = reported[i].udf_path =>
                                Tail(logger[i]) = Tail(logger[j])

\* A system function's query and a user function's action reported with the
\* same stats.
C13_Witness ==
    \E i, j \in DOMAIN logger :
        /\ reported[i].entry = "track_call"
        /\ reported[j].entry = "track_call"
        /\ reported[i].udf_path.variant = "Function"
        /\ reported[i].udf_path.is_system
        /\ reported[j].udf_path.variant = "Function"
        /\ ~reported[j].udf_path.is_system
        /\ reported[i].call_type.variant = "CachedQuery"
        /\ reported[j].call_type.variant = "Action"
        /\ reported[i].stats = reported[j].stats
        /\ ~logger[i][1].is_tracked
        /\ Len(logger[i]) > 4

\* C14: the batch track_function_usage hands the logger holds no
\* FunctionCall event and is the batch of a track_call with the same
\* identity, execution id and stats less its leading FunctionCall event.
C14_LegacyIsCallLessSummary ==
    \A i \in DOMAIN logger :
        reported[i].entry = "track_function_usage" =>
            /\ \A k \in DOMAIN logger[i] : logger[i][k].type # "FunctionCall"
            /\ \A j \in DOMAIN logger :
                    ( /\ reported[j].entry = "track_call"
                      /\ reported[j].udf_path = reported[i].udf_path
                      /\ reported[j].execution_id = reported[i].execution_id
                      /\ reported[j].stats = reported[i].stats ) =>
                        /\ logger[j][1].type = "FunctionCall"
                        /\ logger[i] = Tail(logger[j])

\* One execution's stats reported through both entry points under one
\* identity.
C14_Witness ==
    \E i, j \in DOMAIN logger :
        /\ reported[i].entry = "track_function_usage"
        /\ reported[j].entry = "track_call"
        /\ reported[j].udf_path = reported[i].udf_path
        /\ reported[j].stats = reported[i].stats
        /\ Len(logger[i]) > 4

(***************************************************************************)
(* Properties of independent storage calls, checked under SpecIndependent. *)
(***************************************************************************)
\* C15: a storage call tracked on the UsageCounter records exactly one
\* StorageCall event, with an identifier no other call has, before its
\* tracker is handed out; each recording on the tracker records exactly one
\* StorageBandwidth event with the tracker's identifier (the amount as
\* ingress and 0 as egress, or 0 as ingress and the amount as egress); so
\* the StorageCall event of an identifier precedes every StorageBandwidth
\* event with it.
C15_IndependentStorageCall ==
    /\ Len(logger) = Len(reported)
    /\ \A id \in independent :
          Cardinality({i \in DOMAIN logger :
                          logger[i][1].type = "StorageCall" /\ logger[i][1].id = id}) = 1
    /\ \A i \in DOMAIN logger :
          /\ Len(logger[i]) = 1
          /\ reported[i].entry = "track_storage_call" =>
                /\ logger[i][1].type = "StorageCall"
                /\ logger[i][1].call = reported[i].storage_api
                /\ \A j \in DOMAIN logger :
                      (logger[j][1].type = "StorageCall" /\ logger[j][1].id = logger[i][1].id)
                          => j = i
          /\ reported[i].entry \in {"track_storage_ingress_size", "track_storage_egress_size"} =>
                /\ logger[i][1].type = "StorageBandwidth"
                /\ logger[i][1].id = reported[i].execution_id
                /\ logger[i][1].ingress =
                      (IF reported[i].entry = "track_storage_ingress_size"
                       THEN reported[i].size ELSE 0)
                /\ logger[i][1].egress =
                      (IF reported[i].entry = "track_storage_egress_size"
                       THEN reported[i].size ELSE 0)
                /\ \E j \in 1..(i - 1) :
                      /\ logger[j][1].type = "StorageCall"
                      /\ logger[j][1].id = logger[i][1].id

\* Two storage calls whose steps interleaved, an ingress recorded on the
\* tracker of one and an egress on the tracker of the other.
C15_Witness ==
    /\ Len(logger) = 4
    /\ logger[1][1].type = "StorageCall"
    /\ logger[1][1].id = "storage-2"
    /\ logger[2][1].type = "StorageBandwidth"
    /\ logger[2][1].ingress = MaxBytes
    /\ logger[3][1].type = "StorageCall"
    /\ logger[4][1].type = "StorageBandwidth"
    /\ logger[4][1].id = "storage-1"
    /\ logger[4][1].egress = MaxBytes

(***************************************************************************)
(* Properties of the handles on a tracker, checked under SpecScope.        *)
(***************************************************************************)
\* C16: no call on a FunctionUsageTracker or on a storage call tracker it
\* returned (track_*, track_storage_call, the two recordings, add,
\* gather_user_stats) and no drop of a tracker hands the usage logger
\* anything: whatever was buffered, the logger has received no batch.
C16_TrackerNeverReports == logger = <<>> /\ reported = <<>>

\* A tracker with usage buffered through a storage call tracker, abandoned
\* by both threads.
C16_Witness ==
    /\ \A th \in Threads : pc[th] = "dropped"
    /\ state.storage_ingress_size > 0
    /\ state.storage_calls # EmptyMap
    /\ extracted = None

\* C17: track_storage_call(api) leaves storage_calls[api] larger by exactly
\* one (1 when the key was absent) and every other counter and key as it
\* was, and hands the caller a tracker on the same state: a recording of b
\* bytes through it adds b to storage_ingress_size (resp.
\* storage_egress_size) and to nothing else, and gather_user_stats()
\* afterwards returns the sums of what was recorded.
C17_StorageCallAndScope ==
    [][/\ \A th \in Threads, api \in Apis :
            track_storage_call(th, api) =>
                /\ state' = [state EXCEPT !.storage_calls =
                                [k \in DOMAIN state.storage_calls \cup {api} |->
                                    IF k = api THEN Get(state.storage_calls, api) + 1
                                    ELSE state.storage_calls[k]]]
                /\ scopes'[th] = scopes[th] + 1
       /\ \A th \in Threads, b \in ScopeAmounts :
            /\ scope_track_storage_ingress_size(th, b) =>
                    state' = [state EXCEPT !.storage_ingress_size = @ + b]
            /\ scope_track_storage_egress_size(th, b) =>
                    state' = [state EXCEPT !.storage_egress_size = @ + b]
       /\ \A th \in Threads :
            gather_user_stats(th) =>
                /\ Unwrap(extracted').storage_ingress_size = reference.storage_ingress_size
                /\ Unwrap(extracted').storage_egress_size = reference.storage_egress_size
                /\ \A api \in Apis :
                      Get(Unwrap(extracted').storage_calls, api) = reference.storage_calls[api]
      ]_vars

\* A storage API called on a fresh tracker, MaxBytes recorded through the
\* tracker returned, then the stats gathered.
C17_Witness ==
    /\ extracted # None
    /\ \E api \in Apis : Unwrap(extracted).storage_calls = (api :> 1)
    /\ Unwrap(extracted).storage_ingress_size = MaxBytes
    /\ \E th \in Threads : scopes[th] = 1 /\ pc[th] = "gathered"

\* C18 as stated: once gather_user_stats() has been called on a tracker, the
\* buffered counters change no more and are gathered no second time.
C18_NothingAfterExtract ==
    [][(\E th \in Threads : pc[th] = "gathered") =>
            /\ state' = state
            /\ \A th \in Threads : pc'[th] = "gathered" => pc[th] = "gathered"]_vars

\* C18, amended: gather_user_stats() consumes only the handle it is called
\* on, which stays consumed; what it returns is a copy of the buffered
\* counters as they are at that moment, and the call leaves them in place.
\* (Another clone, or a storage call tracker returned earlier, can go on
\* changing the buffered counters and gather them again.)
C18_ExtractCopiesAndConsumesOneHandle ==
    [][\A th \in Threads :
         /\ gather_user_stats(th) =>
                /\ extracted' = Some(state)
                /\ state' = state
                /\ \A other \in Threads \ {th} : pc'[other] = pc[other]
                /\ scopes' = scopes
         /\ pc[th] = "gathered" => pc'[th] = "gathered"]_vars

\* A thread gathered the stats and then recorded through the storage call
\* tracker it still holds: the buffered counters have moved on from what
\* was returned.
C18_Witness ==
    /\ extracted # None
    /\ \E th \in Threads : pc[th] = "gathered" /\ scopes[th] > 0
    /\ Unwrap(extracted).storage_ingress_size < state.storage_ingress_size
    /\ Unwrap(extracted).storage_calls = state.storage_calls

(***************************************************************************)
(* Properties of counters at the top of their range, checked under         *)
(* SpecOverflow.                                                           *)
(***************************************************************************)
\* No call has panicked.
NoPanic == \A th \in Threads : pc[th] # "panicked"

\* Every sum of the reference fits a counter.
Fits(r) ==
    /\ r.storage_ingress_size <= U64Max
    /\ r.storage_egress_size <= U64Max
    /\ \A a \in Apis : r.storage_calls[a] <= U64Max
    /\ \A t \in Tables :
        /\ r.database_ingress_size[t] <= U64Max
        /\ r.database_egress_size[t] <= U64Max
        /\ r.vector_ingress_size[t] <= U64Max
        /\ r.vector_egress_size[t] <= U64Max

\* The reference with every sum reduced modulo 2^CounterBits.
Wrapped(r) ==
    [ storage_calls |-> [a \in Apis |-> r.storage_calls[a] % (U64Max + 1)],
      storage_ingress_size |-> r.storage_ingress_size % (U64Max + 1),
      storage_egress_size |-> r.storage_egress_size % (U64Max + 1),
      database_ingress_size |-> [t \in Tables |-> r.database_ingress_size[t] % (U64Max + 1)],
      database_egress_size |-> [t \in Tables |-> r.database_egress_size[t] % (U64Max + 1)],
      vector_ingress_size |-> [t \in Tables |-> r.vector_ingress_size[t] % (U64Max + 1)],
      vector_egress_size |-> [t \in Tables |-> r.vector_egress_size[t] % (U64Max + 1)] ]

\* C19 as stated: whatever the amounts, sums beyond the counter's range
\* included, every tracking call and every add() ends without a panic and
\* leaves the counters at the true sums.
C19_AlwaysTrueSums ==
    mutex = NoThread => (NoPanic /\ MatchesReference(state, reference))

\* C19, amended: as long as every true sum fits a counter, every tracking
\* call and every add() ends without a panic and leaves the counters at the
\* true sums; once a sum does not fit, the call that adds it either panics
\* (build with overflow checks) or leaves the counter at the sum modulo
\* 2^64 (build without), and while no call has panicked every counter is
\* its true sum modulo 2^64.
C19_TrueSumsWhileTheyFit ==
    mutex = NoThread =>
        /\ Fits(reference) => (NoPanic /\ MatchesReference(state, reference))
        /\ NoPanic => MatchesReference(state, Wrapped(reference))

\* A counter taken to the top of its range by one call and over it by the
\* next, which wrapped it.
C19_Witness ==
    /\ mutex = NoThread
    /\ NoPanic
    /\ ncalls = 2
    /\ reference.storage_ingress_size = U64Max + 1
    /\ state.storage_ingress_size = 0

(***************************************************************************)
(* FunctionUsageStats::aggregate: the six totals of a stats value.  Each   *)
(* map is totalled by `.values().sum()`, a fold of `+` over the values in  *)
(* key order starting from 0; like `+=`, the fold wraps in a build without *)
(* overflow checks and panics at the first partial sum that does not fit   *)
(* in a build with them.                                                   *)
(***************************************************************************)
\* `map.values()`: the values in ascending key order.
Values(map) ==
    LET keys == SortedKeys(map, TableNames)
    IN [i \in DOMAIN keys |-> map[keys[i]]]

\* `.sum()` over u64 values.
RECURSIVE Sum(_)
Sum(values) ==
    IF values = <<>>
    THEN 0
    ELSE AddU64(Sum(SubSeq(values, 1, Len(values) - 1)), values[Len(values)])

\* Some partial sum of `.sum()` does not fit a u64.
SumOverflows(values) ==
    \E n \in DOMAIN values : Overflows(Sum(SubSeq(values, 1, n - 1)), values[n])

\* Slip: the read and write totals of the database exchanged.
aggregate_reads_as_writes(stats) ==
    [ database_read_bytes |-> Sum(Values(stats.database_ingress_size)),
      database_write_bytes |-> Sum(Values(stats.database_egress_size)),
      storage_read_bytes |-> stats.storage_egress_size,
      storage_write_bytes |-> stats.storage_ingress_size,
      vector_index_read_bytes |-> Sum(Values(stats.vector_egress_size)),
      vector_index_write_bytes |-> Sum(Values(stats.vector_ingress_size)) ]

aggregate(stats) ==
    [ database_read_bytes |-> Sum(Values(stats.database_egress_size)),
      database_write_bytes |-> Sum(Values(stats.database_ingress_size)),
      storage_read_bytes |-> stats.storage_egress_size,
      storage_write_bytes |-> stats.storage_ingress_size,
      vector_index_read_bytes |-> Sum(Values(stats.vector_egress_size)),
      vector_index_write_bytes |-> Sum(Values(stats.vector_ingress_size)) ]

\* The outcome of an aggregate() that panicked: nothing is returned.
AggregatePanicked == Some([panicked |-> TRUE])

\* Values of one table's counter, the top of the range among them.
AggregateAmounts == {1, MaxBytes, U64Max}

\* The per-table maps over the tables.
AggregateMaps == UNION {[D -> AggregateAmounts] : D \in SUBSET Tables}

\* The stats values aggregate() is called on.
AggregateInputs ==
    { [Default EXCEPT !.database_ingress_size = database_ingress_size,
                      !.database_egress_size = database_egress_size,
                      !.vector_ingress_size = vector[1],
                      !.vector_egress_size = vector[2],
                      !.storage_ingress_size = storage[1],
                      !.storage_egress_size = storage[2]] :
        database_ingress_size \in AggregateMaps,
        database_egress_size \in AggregateMaps,
        vector \in { <<EmptyMap, EmptyMap>>,
                     <<("docs" :> 1) @@ ("users" :> MaxBytes),
                       ("docs" :> 1) @@ ("users" :> U64Max)>> },
        storage \in { <<0, 0>>, <<MaxBytes, 1>> } }

AggregateInit ==
    /\ TrackerInit
    /\ MergeIdle
    /\ CodecIdle
    /\ SinkInit
    /\ aggregate_of \in AggregateInputs
    /\ aggregated = None

OutsideAggregate ==
    UNCHANGED <<tracker_vars, merge_vars, codec_vars, sink_vars, independent_vars>>

\* aggregate(&self) in a build without overflow checks.
apply_aggregate ==
    /\ aggregated = None
    /\ aggregated' = Some(aggregate(aggregate_of))
    /\ UNCHANGED aggregate_of

\* aggregate(&self) in a build with overflow checks.
apply_aggregate_overflow_checked ==
    /\ aggregated = None
    /\ aggregated' =
          IF \/ SumOverflows(Values(aggregate_of.database_egress_size))
             \/ SumOverflows(Values(aggregate_of.database_ingress_size))
             \/ SumOverflows(Values(aggregate_of.vector_egress_size))
             \/ SumOverflows(Values(aggregate_of.vector_ingress_size))
          THEN AggregatePanicked
          ELSE Some(aggregate(aggregate_of))
    /\ UNCHANGED aggregate_of

AggregateNext ==
    \/ apply_aggregate /\ OutsideAggregate
    \/ apply_aggregate_overflow_checked /\ OutsideAggregate

SpecAggregate == AggregateInit /\ [][AggregateNext]_vars

\* The sum of all values of a map, in unbounded arithmetic.
RECURSIVE TrueSum(_, _)
TrueSum(map, keys) ==
    IF keys = {}
    THEN 0
    ELSE LET key == CHOOSE k \in keys : TRUE
         IN map[key] + TrueSum(map, keys \ {key})

\* The six totals C20 names, in unbounded arithmetic.
TrueTotals(stats) ==
    [ database_read_bytes |->
          TrueSum(stats.database_egress_size, DOMAIN stats.database_egress_size),
      database_write_bytes |->
          TrueSum(stats.database_ingress_size, DOMAIN stats.database_ingress_size),
      storage_read_bytes |-> stats.storage_egress_size,
      storage_write_bytes |-> stats.storage_ingress_size,
      vector_index_read_bytes |->
          TrueSum(stats.vector_egress_size, DOMAIN stats.vector_egress_size),
      vector_index_write_bytes |->
          TrueSum(stats.vector_ingress_size, DOMAIN stats.vector_ingress_size) ]

AggregateFields == DOMAIN TrueTotals(Default)

\* C20 as stated: for every stats value, aggregate() returns the six
\* totals, each map total being the sum of all values of its map, and the
\* stats value it is called on is unchanged.
C20_AggregateIsTheSums ==
    [][ aggregated' # aggregated =>
          /\ aggregated' = Some(TrueTotals(aggregate_of))
          /\ aggregate_of' = aggregate_of ]_vars

\* C20, amended: for every stats value whose map totals fit 64 bits,
\* aggregate() returns the six totals, each map total being the sum of all
\* values of its map; for a map whose values sum beyond 64 bits it panics
\* (build with overflow checks) or returns that sum modulo 2^64 (build
\* without); in every case the stats value it is called on is unchanged.
C20_AggregateIsTheSumsThatFit ==
    [][ aggregated' # aggregated =>
          LET totals == TrueTotals(aggregate_of)
          IN /\ aggregate_of' = aggregate_of
             /\ (\A f \in AggregateFields : totals[f] <= U64Max)
                    => aggregated' = Some(totals)
             /\ \/ aggregated' = AggregatePanicked
                \/ aggregated' =
                      Some([f \in AggregateFields |-> totals[f] % (U64Max + 1)]) ]_vars

\* The totals of a stats value with two tables written and one read.
C20_Witness ==
    /\ aggregate_of.database_ingress_size = ("docs" :> 1) @@ ("users" :> MaxBytes)
    /\ aggregate_of.database_egress_size = ("docs" :> 1)
    /\ aggregate_of.storage_ingress_size = MaxBytes
    /\ aggregated # None
    /\ Unwrap(aggregated).database_write_bytes = 1 + MaxBytes
    /\ Unwrap(aggregated).database_read_bytes = 1
    /\ Unwrap(aggregated).storage_write_bytes = MaxBytes

(***************************************************************************)
(* Properties of the lock, checked under Spec.                             *)
(***************************************************************************)
\* A thread is between the two mutations of a vector call.
InVectorCall(th) == pc[th] \in {"vector_ingress", "vector_egress"}

\* C21: a vector call is atomic for every other call on the tracker: the
\* thread between its two mutations holds the lock, so at most one mutation
\* is in flight; gather_user_stats() takes its snapshot only when no vector
\* call is between its two mutations, so it never sees the database counter
\* moved without the vector counter or the reverse; and the stats change
\* only in a step taken with the lock free or by the holder of the lock
\* finishing its call.
C21_VectorCallsAtomic ==
    /\ [](\A th \in Threads : InVectorCall(th) => mutex = th)
    /\ [][extracted' # extracted =>
            /\ \A th \in Threads : ~InVectorCall(th)
            /\ \A t \in Tables :
                /\ Get(Unwrap(extracted').database_ingress_size, t)
                       - Get(Unwrap(extracted').vector_ingress_size, t)
                     = reference.database_ingress_size[t]
                       - reference.vector_ingress_size[t]
                /\ Get(Unwrap(extracted').database_egress_size, t)
                       - Get(Unwrap(extracted').vector_egress_size, t)
                     = reference.database_egress_size[t]
                       - reference.vector_egress_size[t]]_vars
    /\ [][state' # state =>
            \/ mutex = NoThread
            \/ \E th \in Threads :
                  mutex = th /\ InVectorCall(th) /\ pc'[th] = "idle"]_vars

\* A snapshot that holds a whole vector call, taken before another thread
\* entered the vector call it is now in the middle of: the snapshot is the
\* stats that call found, not the stats between its two mutations.
C21_Witness ==
    /\ extracted # None
    /\ Unwrap(extracted).vector_ingress_size # EmptyMap
    /\ \E th \in Threads :
        /\ pc[th] = "vector_egress"
        /\ mutex = th
        /\ local[th].size > 0
        /\ local[th].entry = Unwrap(extracted)
        /\ Get(state.database_egress_size, local[th].table_name)
             > Get(state.vector_egress_size, local[th].table_name)

(***************************************************************************)
(* The frame of the plain tracking calls, checked under Spec.              *)
(***************************************************************************)
\* Between `before` and `after` only the entry `key` of the map `field`
\* moved, by `amount` (an absent entry counting as zero); every other
\* entry of that map and every other field is as it was.
OnlyEntryMoved(before, after, field, key, amount) ==
    /\ \A f \in (DOMAIN before) \ {field} : after[f] = before[f]
    /\ DOMAIN after[field] = DOMAIN before[field] \cup {key}
    /\ after[field][key] = Get(before[field], key) + amount
    /\ \A k \in DOMAIN before[field] : k # key => after[field][k] = before[field][k]

\* Between `before` and `after` only the scalar `field` moved, by `amount`.
OnlyScalarMoved(before, after, field, amount) ==
    /\ \A f \in (DOMAIN before) \ {field} : after[f] = before[f]
    /\ after[field] = before[field] + amount

\* C22: track_database_ingress_size(table, bytes, false) moves only
\* database_ingress_size[table], by +bytes, and
\* track_database_egress_size only database_egress_size[table]; both leave
\* the vector maps, the storage scalars, storage_calls and every other
\* table's entries as they were; track_storage_ingress_size and
\* track_storage_egress_size move only their own scalar.
C22_PlainTrackingFrame ==
    [][\A th \in Threads, bytes \in ByteAmounts :
         /\ \A table \in Tables :
             /\ track_database_ingress_size(th, table, bytes, FALSE) =>
                  OnlyEntryMoved(state, state', "database_ingress_size", table, bytes)
             /\ track_database_egress_size(th, table, bytes, FALSE) =>
                  OnlyEntryMoved(state, state', "database_egress_size", table, bytes)
         /\ track_storage_ingress_size(th, bytes) =>
              OnlyScalarMoved(state, state', "storage_ingress_size", bytes)
         /\ track_storage_egress_size(th, bytes) =>
              OnlyScalarMoved(state, state', "storage_egress_size", bytes)]_vars

\* A plain ingress call on a table of a tracker that already held vector
\* usage, storage calls and another table's traffic, all of them left as
\* add() put them.
C22_Witness ==
    /\ ncalls = 2
    /\ nskipped = 0
    /\ mutex = NoThread
    /\ \E stats \in NestedStats :
        /\ stats.vector_egress_size # EmptyMap
        /\ stats.storage_calls # EmptyMap
        /\ \E table \in Tables :
            /\ state # stats
            /\ OnlyEntryMoved(stats, state, "database_ingress_size", table, MaxBytes)

(***************************************************************************)
(* Conservation of the counters by the fan-out, checked under SpecSink.    *)
(***************************************************************************)
\* The sum of one field over a sequence of events.
RECURSIVE SumField(_, _)
SumField(events, field) ==
    IF events = <<>> THEN 0 ELSE Head(events)[field] + SumField(Tail(events), field)

\* The events of one type in a batch that are about one table.
EventsAbout(batch, type, table) ==
    SelectSeq(batch, LAMBDA e : e.type = type /\ e.table_name = table)

\* C23: for every stats value passed to track_call or to
\* track_function_usage, and for every table, the ingress fields of the
\* batch's DatabaseBandwidth events about the table sum to the table's
\* database_ingress_size and their egress fields to its
\* database_egress_size (an absent entry counting as zero); likewise the
\* VectorBandwidth events and the vector maps, the counts of the
\* FunctionStorageCalls events of an API and storage_calls, and the
\* FunctionStorageBandwidth events and the two storage scalars.
C23_FanOutConserves ==
    \A i \in DOMAIN logger :
        LET stats == reported[i].stats
            batch == logger[i]
        IN /\ \A t \in Tables :
               /\ SumField(EventsAbout(batch, "DatabaseBandwidth", t), "ingress")
                    = Get(stats.database_ingress_size, t)
               /\ SumField(EventsAbout(batch, "DatabaseBandwidth", t), "egress")
                    = Get(stats.database_egress_size, t)
               /\ SumField(EventsAbout(batch, "VectorBandwidth", t), "ingress")
                    = Get(stats.vector_ingress_size, t)
               /\ SumField(EventsAbout(batch, "VectorBandwidth", t), "egress")
                    = Get(stats.vector_egress_size, t)
           /\ \A api \in Apis :
               SumField(SelectSeq(batch, LAMBDA e : e.type = "FunctionStorageCalls"
                                                     /\ e.call = api), "count")
                 = Get(stats.storage_calls, api)
           /\ SumField(SelectSeq(batch, LAMBDA e : e.type = "FunctionStorageBandwidth"),
                       "ingress") = stats.storage_ingress_size
           /\ SumField(SelectSeq(batch, LAMBDA e : e.type = "FunctionStorageBandwidth"),
                       "egress") = stats.storage_egress_size
           /\ \A j \in DOMAIN batch :
               /\ batch[j].type \in {"DatabaseBandwidth", "VectorBandwidth"}
                    => batch[j].table_name \in Tables
               /\ batch[j].type = "FunctionStorageCalls" => batch[j].call \in Apis

\* A batch of the legacy entry point for stats with a table both written
\* and read: two DatabaseBandwidth events about it, whose fields add up to
\* the two counters, and two storage APIs called.
C23_Witness ==
    \E i \in DOMAIN logger :
        /\ reported[i].entry = "track_function_usage"
        /\ Len(EventsAbout(logger[i], "DatabaseBandwidth", "docs")) = 2
        /\ SumField(EventsAbout(logger[i], "DatabaseBandwidth", "docs"), "ingress") = 2
        /\ SumField(EventsAbout(logger[i], "DatabaseBandwidth", "docs"), "egress") = 1
        /\ reported[i].stats.storage_calls = ("getUrl" :> 2) @@ ("store" :> 1)

(***************************************************************************)
(* Repeated names in a message, checked under SpecCodec.                   *)
(***************************************************************************)
\* The names of the entries of a repeated field whose entries are complete.
Names(entries) == {Unwrap(entries[i].name) : i \in DOMAIN entries}

\* Two entries of a repeated field carry the same name.
HasRepeatedName(entries) ==
    \E i, j \in DOMAIN entries : i < j /\ entries[i].name = entries[j].name

\* The count of the last entry, in message order, that carries the name.
LastCount(entries, name) ==
    LET last == CHOOSE i \in DOMAIN entries :
                    /\ entries[i].name = Some(name)
                    /\ \A j \in DOMAIN entries : entries[j].name = Some(name) => j <= i
    IN Unwrap(entries[last].count)

\* C24: decoding a message that lacks nothing and in which a repeated field
\* holds several entries with one name succeeds; the decoded map has the
\* names of the field's entries as its keys, one entry per name, whose
\* count is that of the last entry with the name in message order (not the
\* first, not the sum); and converting the decoded stats back gives a
\* message that differs from the one decoded.
C24_LastDuplicateWins ==
    (wire_stats = None /\ wire_result # None /\ AbsentFields(Unwrap(wire_msg)) = {}) =>
        LET proto == Unwrap(wire_msg)
            result == Unwrap(wire_result)
        IN \A f \in MapFields :
            HasRepeatedName(proto[f]) =>
                /\ result.ok
                /\ DOMAIN result.value[f] = Names(proto[f])
                /\ \A name \in Names(proto[f]) :
                      result.value[f][name] = LastCount(proto[f], name)
                /\ ToProto(result.value)[f] # proto[f]
                /\ Len(ToProto(result.value)[f]) < Len(proto[f])

\* A decoded message whose database_egress_size names docs twice, with
\* counts 1 and then U64Max: the map holds docs once, with U64Max.
C24_Witness ==
    /\ wire_stats = None
    /\ wire_result # None
    /\ Unwrap(wire_msg).database_egress_size =
          << [name |-> Some("docs"), count |-> Some(1)],
             [name |-> Some("docs"), count |-> Some(U64Max)] >>
    /\ Unwrap(wire_result).ok
    /\ Unwrap(wire_result).value.database_egress_size = ("docs" :> U64Max)

====
